---- MODULE Spec2Model ----
(***************************************************************************)
(* A model of lib/mavensmate/project.js: the Project object, the disk it   *)
(* works on, and its asynchronous workflows (initialize, _initNew,         *)
(* _initNewProjectFromExistingDirectory, _initExisting,                    *)
(* retrieveAndWriteToDisk, _initConfig, refreshFromServer,                 *)
(* replaceLocalFiles, _writeLocalStore).  Every promise chain is cut at    *)
(* its suspension points (network calls, asynchronous file writes); what   *)
(* runs synchronously between two of them is one action.                   *)
(***************************************************************************)
EXTENDS Integers, Sequences, FiniteSets, TLC

(* ---------------------------------------------------------------------- *)
(* Bounds of the model                                                     *)
(* ---------------------------------------------------------------------- *)
\* number of API calls (initialize, retrieveAndWriteToDisk, refreshFromServer)
\* made on the project in one behaviour
MaxOps == 3

\* token refreshes of the network client a run may see
MaxRefreshes == 1

(* ---------------------------------------------------------------------- *)
(* JavaScript values and paths                                             *)
(* ---------------------------------------------------------------------- *)
NULL  == "null"        \* the prototype default of _path and _workspace
UNDEF == "undefined"   \* a property that was never assigned

WsDir   == "/ws"
ProjDir == "/ws/Proj1"
CwdDir  == "/cwd/here"
ExtDir  == "/ext/orig"
Locs    == {ProjDir, CwdDir, ExtDir}

IsString(v) == v # NULL /\ v # UNDEF
Falsy(v)    == v = NULL \/ v = UNDEF

\* path.join(a, b)
Join(a, b) == a \o "/" \o b

\* path.dirname / path.basename on the project directories of the model
Dirname(p) ==
  CASE p = ProjDir -> "/ws"
    [] p = CwdDir  -> "/cwd"
    [] p = ExtDir  -> "/ext"
    [] OTHER       -> "."

Basename(p) ==
  CASE p = ProjDir -> "Proj1"
    [] p = CwdDir  -> "here"
    [] p = ExtDir  -> "orig"
    [] OTHER       -> p

(* ---------------------------------------------------------------------- *)
(* Error messages.  A message is a sequence of fragments; indexOf(s) >= 0  *)
(* is the search for the fragment s.                                       *)
(* ---------------------------------------------------------------------- *)
Contains(msg, frag) == \E i \in DOMAIN msg : msg[i] = frag

NoErr             == << >>
ErrSelectWs       == << "Please select a workspace for this project" >>
ErrNoSrc          == << "Project must have a top-level src directory" >>
ErrNoPkg          == << "Project must have a valid package.xml file located in the src directory" >>
ErrNameTaken      == << "Project with this name already exists in the selected workspace" >>
ErrNotProject     == << "This does not seem to be a valid MavensMate project directory." >>
ErrNoWorkspace    == << "Could not set workspace for new project" >>
ErrDirExists      == << "Directory already exists!" >>
ErrPathTaken      == << "Project with this name already exists in the specified workspace." >>
ErrJoinType       == << "TypeError", "Arguments to path.join must be strings" >>
ErrIO             == << "EIO" >>
ErrNet            == << "socket hang up" >>
ErrInvalidLogin   == << "INVALID_LOGIN", ": Invalid username, password, security token" >>
ErrExpiredPw      == << "EXPIRED_PASSWORD" >>
ErrNeedToken      == << "LOGIN_MUST_USE_SECURITY_TOKEN" >>
ErrStoreWrite     == << "Could not write local store: ", "EIO" >>
ErrNotSupported   == << "sObject type 'AuraDefinition' is not supported" >>
ErrNoResource     == << "NOT_FOUND: The ", "requested resource does not exist" >>
ErrNoStoreFile    == << "ENOENT", "config/.local_store" >>
ErrUndefinedType  == << "TypeError", "Cannot read property 'directoryName' of undefined" >>
ErrInput          == << "the file properties could not be fetched" >>
ErrSessionCache   == << "Could not update local session cache: ", "EIO" >>
ErrKeychain       == << "Could not retrieve project password from the system keychain." >>
ErrNoPassword     == << "System keychain is not enabled/supported and there is no \"password\" property in project config/.settings file." >>
ErrSettingsRead   == << "Could not read project .settings file: ", "ENOENT" >>
ErrUndefinedId    == << "TypeError", "Cannot read property 'id' of undefined" >>
ErrDebugRead      == << "Could not read project .debug file: ", "ENOENT" >>
ErrDeploy         == << "deploy failed" >>
ErrUnrecognized   == << "Unrecognized package.xml metadata type: ", "Widget" >>

\* what a collaborator (network client, package descriptor, file system) may
\* fail with
CollabErrs == { ErrNet, ErrInvalidLogin }
LoginErrs  == { ErrNet, ErrInvalidLogin, ErrExpiredPw, ErrNeedToken }

(* ---------------------------------------------------------------------- *)
(* The disk                                                                *)
(* ---------------------------------------------------------------------- *)
ABSENT == "absent"

\* files of the config directory, and the editor file of the project root
CfgNames == { ".settings", ".session", ".debug", ".describe", ".lightning",
              ".org_metadata" }
\* files of a metadata tree (src, or a retrieved "unpackaged" folder)
Manifest == "package.xml"
SrcNames == { Manifest, "classes/A.cls", "classes/B.cls", "widgets/X.wdg" }

NoCfg  == [f \in CfgNames |-> ABSENT]
NoTree == [f \in SrcNames |-> ABSENT]
NoStore == [present |-> FALSE, entries |-> {}]

\* the objects config/.settings holds: the properties the credentials fill
\* (the others do not change); a property that is undefined is not there
SettingsKeys == { "username", "environment", "loginUrl", "password" }
SettingsObjects ==
  [ username : {"u0", "u1"}, environment : {"e0", "e1"}, loginUrl : {"l0", "l1"},
    password : {UNDEF, "pw0", "pw1"} ]

\* JSON.stringify: a property whose value is undefined is left out
Stringify(o) ==
  "{username:" \o o.username \o ",environment:" \o o.environment
    \o ",loginUrl:" \o o.loginUrl
    \o (IF o.password = UNDEF THEN "" ELSE ",password:" \o o.password) \o "}"

\* fs.readJson / readJsonSync of a file that Stringify wrote
ParseSettings(text) == CHOOSE o \in SettingsObjects : Stringify(o) = text

\* the settings of a project made earlier, without and with the password
Settings0 == [username |-> "u0", environment |-> "e0", loginUrl |-> "l0", password |-> UNDEF]
Settings0Inline == [Settings0 EXCEPT !.password = "pw0"]

\* a directory that does not exist
NoDir == [ exists |-> FALSE, config |-> FALSE, cfg |-> NoCfg, editor |-> ABSENT,
           hasSrc |-> FALSE, src |-> NoTree,
           hasUnpackaged |-> FALSE, unpackaged |-> NoTree,
           store |-> NoStore ]

EmptyDir == [NoDir EXCEPT !.exists = TRUE]

FilesOf(tree) == { f \in SrcNames : tree[f] # ABSENT }

(* ---------------------------------------------------------------------- *)
(* The server's answer to a retrieve, and the local store built from it    *)
(* ---------------------------------------------------------------------- *)
\* the member files a retrieve may return next to the manifest
RetrieveAnswers == { {"classes/A.cls", "classes/B.cls"},
                     {"classes/B.cls", "widgets/X.wdg"} }

\* the "unpackaged" output of a retrieve that returned the members S
StagedTree(S) == [f \in SrcNames |-> IF f = Manifest \/ f \in S THEN "server" ELSE ABSENT]

\* the "unpackaged" output of a retrieve of the members S that the server
\* answered from the version v of its metadata
StagedTreeOf(S, v) == [f \in SrcNames |-> IF f = Manifest \/ f \in S THEN v ELSE ABSENT]

\* the file property the server reports for a retrieved file
FileProperty(f) ==
  CASE f = Manifest        -> [fullName |-> "unpackaged/package.xml", fileName |-> "unpackaged/package.xml"]
    [] f = "classes/A.cls" -> [fullName |-> "A", fileName |-> "unpackaged/classes/A.cls"]
    [] f = "classes/B.cls" -> [fullName |-> "B", fileName |-> "unpackaged/classes/B.cls"]
    [] OTHER               -> [fullName |-> "X", fileName |-> "unpackaged/widgets/X.wdg"]

FileOrder == << Manifest, "classes/A.cls", "classes/B.cls", "widgets/X.wdg" >>

\* retrieveResult.fileProperties of a retrieve that returned the members S
FileProperties(S) ==
  LET keep(f) == f = Manifest \/ f \in S
      names   == SelectSeq(FileOrder, keep)
  IN  [i \in DOMAIN names |-> FileProperty(names[i])]

NoAnswer == [members |-> {}, fileProperties |-> << >>]

\* the type registry: metadataHelper.getTypeByPath(fileName); NoType is undefined
NoType == [suffix |-> UNDEF]
getTypeByPath(fileName) ==
  CASE fileName = "unpackaged/classes/A.cls"   -> [suffix |-> "cls"]
    [] fileName = "unpackaged/classes/B.cls"   -> [suffix |-> "cls"]
    [] fileName = "unpackaged/classes/New.cls" -> [suffix |-> "cls"]
    [] fileName = "cls"                        -> [suffix |-> "cls"]
    [] OTHER                                   -> NoType

\* fp.fullName.indexOf('package.xml') !== -1
IsManifestName(fullName) == fullName = "unpackaged/package.xml"

\* an assignment that drops the other keys
StorePutAlone(store, key, value) == { value }

\* store[key] = value
StorePut(store, key, value) == { e \in store : e.key # key } \cup { value }

\* what the _.each of _writeLocalStore does with one file property
WriteEntry(store, fp) ==
  LET metadataType == getTypeByPath(fp.fileName)
  IN  IF metadataType # NoType /\ ~IsManifestName(fp.fullName)
      THEN LET key == fp.fullName \o "." \o metadataType.suffix
           IN  StorePut(store, key,
                        [key |-> key, fullName |-> fp.fullName,
                         fileName |-> fp.fileName, mmState |-> "clean"])
      ELSE store

RECURSIVE WriteEntries(_, _)
WriteEntries(store, props) ==
  IF props = << >> THEN store
  ELSE WriteEntries(WriteEntry(store, Head(props)), Tail(props))

\* a store that starts from an entry written earlier
LocalStoreKeeping(props) ==
  WriteEntries({ [key |-> "Old.cls", fullName |-> "Old",
                   fileName |-> "unpackaged/classes/Old.cls", mmState |-> "clean"] }, props)

\* the content _writeLocalStore writes to config/.local_store: it starts from {}
LocalStoreFrom(props) == WriteEntries({}, props)

\* the type registry by type name: metadataHelper.getTypeByXmlName(name);
\* NoXmlType is undefined
NoXmlType == [xmlName |-> UNDEF, suffix |-> UNDEF, directoryName |-> UNDEF,
              inFolder |-> FALSE, childXmlNames |-> FALSE, parentXmlName |-> UNDEF,
              tagName |-> UNDEF]
getTypeByXmlName(xmlName) ==
  CASE xmlName = "ApexClass" ->
         [NoXmlType EXCEPT !.xmlName = xmlName, !.suffix = "cls", !.directoryName = "classes"]
    [] xmlName = "CustomObject" ->
         [NoXmlType EXCEPT !.xmlName = xmlName, !.suffix = "object",
                           !.directoryName = "objects", !.childXmlNames = TRUE]
    [] xmlName = "CustomField" ->
         [NoXmlType EXCEPT !.xmlName = xmlName, !.parentXmlName = "CustomObject",
                           !.tagName = "fields"]
    [] xmlName = "Document" ->
         [NoXmlType EXCEPT !.xmlName = xmlName, !.directoryName = "documents",
                           !.inFolder = TRUE]
    [] OTHER -> NoXmlType

\* a file property as updateLocalStore may be given it: type is fp.type,
\* attrType is fp.attributes.type (UNDEF: the record has no attributes)
Fp(type, attrType, name, fullName, fileName) ==
  [type |-> type, attrType |-> attrType, name |-> name, fullName |-> fullName,
   fileName |-> fileName]
\* raw retrieve results
RetrievedA   == Fp("ApexClass", UNDEF, UNDEF, "A", "unpackaged/classes/A.cls")
RetrievedNew == Fp("ApexClass", UNDEF, UNDEF, "New", "unpackaged/classes/New.cls")
RetrievedX   == Fp("Widget", UNDEF, UNDEF, "X", "unpackaged/widgets/X.wdg")
\* records that carry neither a type nor attributes
PlainB       == Fp(UNDEF, UNDEF, UNDEF, "B", "unpackaged/classes/B.cls")
PlainX       == Fp(UNDEF, UNDEF, UNDEF, "X", "unpackaged/widgets/X.wdg")
PlainManifest == Fp(UNDEF, UNDEF, UNDEF, "unpackaged/package.xml", "unpackaged/package.xml")
\* API-query records: attributes.type and name, creator and modifier nested
QueriedQ     == Fp(UNDEF, "ApexClass", "Q", UNDEF, UNDEF)
QueriedW     == Fp(UNDEF, "Widget", "W", UNDEF, UNDEF)
\* a record with both a type and attributes
DescribedT   == Fp("ApexClass", "ApexClass", "T", "T", "unpackaged/classes/T.cls")

\* fp.fileName.split('.')[1]
SecondPart(fileName) ==
  CASE fileName \in {"unpackaged/classes/A.cls", "unpackaged/classes/B.cls",
                     "unpackaged/classes/New.cls", "unpackaged/classes/T.cls"} -> "cls"
    [] fileName = "unpackaged/widgets/X.wdg" -> "wdg"
    [] fileName = "unpackaged/package.xml"   -> "xml"
    [] OTHER                                 -> UNDEF

\* normalize(fp) of utilities/normalize-object: the fields the store logic
\* reads are kept
normalize(fp) == fp

\* what the _.each of updateLocalStore does with one file property; st is
\* the store in memory, and whether an earlier iteration threw
UpdateEntry(st, fp0) ==
  LET fp == IF fp0.attrType # UNDEF THEN normalize(fp0) ELSE fp0
      put(key, fullName, fileName) ==
        [st EXCEPT !.entries = StorePut(@, key, [key |-> key, fullName |-> fullName,
                                                 fileName |-> fileName,
                                                 mmState |-> "clean"])]
  IN  IF st.threw THEN st
      ELSE IF fp.type # UNDEF
      THEN LET metadataType == getTypeByXmlName(fp.type)
           IN  IF metadataType # NoXmlType /\ fp.attrType # UNDEF
               THEN put(fp.name \o "." \o metadataType.suffix, fp.fullName, fp.fileName)
               ELSE IF metadataType # NoXmlType /\ ~IsManifestName(fp.fullName)
               THEN put(fp.fullName \o "." \o metadataType.suffix, fp.fullName, fp.fileName)
               ELSE st
      ELSE IF fp.attrType # UNDEF
      THEN LET metadataType == getTypeByXmlName(fp.attrType)
           IN  IF metadataType = NoXmlType
               THEN \* metadataType.directoryName of undefined
                    [st EXCEPT !.threw = TRUE]
               ELSE \* fullName and fileName are set, the attributes deleted
                    put(fp.name \o "." \o metadataType.suffix, fp.name,
                        "unpackaged/" \o metadataType.directoryName \o "/" \o fp.name
                          \o "." \o metadataType.suffix)
      ELSE LET metadataType == getTypeByPath(SecondPart(fp.fileName))
           IN  IF metadataType # NoType /\ ~IsManifestName(fp.fullName)
               THEN put(fp.fullName \o "." \o metadataType.suffix, fp.fullName, fp.fileName)
               ELSE st

RECURSIVE UpdateEntries(_, _)
UpdateEntries(st, props) ==
  IF props = << >> THEN st
  ELSE UpdateEntries(UpdateEntry(st, Head(props)), Tail(props))

\* a merge that starts from an empty store
MergedStoreFromScratch(dk, p, props) ==
  IF ~dk[p.path].store.present
  THEN [err |-> ErrNoStoreFile, entries |-> {}]
  ELSE LET st == UpdateEntries([threw |-> FALSE, entries |-> {}], props)
       IN  IF st.threw THEN [err |-> ErrUndefinedType, entries |-> {}]
           ELSE [err |-> NoErr, entries |-> st.entries]

\* the then-callback of updateLocalStore up to fs.outputFile: the error it
\* rejects with, else the store it hands to fs.outputFile
MergedStore(dk, p, props) ==
  IF ~dk[p.path].store.present
  THEN \* getLocalStore: fs.readJsonSync threw
       [err |-> ErrNoStoreFile, entries |-> {}]
  ELSE LET st == UpdateEntries([threw |-> FALSE, entries |-> dk[p.path].store.entries], props)
       IN  IF st.threw THEN [err |-> ErrUndefinedType, entries |-> {}]
           ELSE [err |-> NoErr, entries |-> st.entries]

\* the file-property lists the store operations are called with
PropertyLists ==
  { << RetrievedA, RetrievedNew >>, << RetrievedX, RetrievedNew >>,
    << PlainManifest, PlainB >>, << PlainX, PlainB >>,
    << QueriedQ, DescribedT >>, << QueriedW, RetrievedNew >> }

\* the lists _writeLocalStore is called with: raw retrieve results
RetrievedLists == { l \in PropertyLists : \A i \in DOMAIN l : l[i].fileName # UNDEF }

\* what sfdcClient.deploy may answer
DeployResults ==
  { [id |-> 1, hasRetrieve |-> FALSE, fileProperties |-> << >>],
    [id |-> 2, hasRetrieve |-> TRUE, fileProperties |-> << RetrievedNew >>],
    [id |-> 3, hasRetrieve |-> TRUE, fileProperties |-> << PlainManifest, RetrievedA >>] }

(* ---------------------------------------------------------------------- *)
(* The metadata index and its selection                                    *)
(* (getOrgMetadataIndexWithSelections, project.js 985-1079)                *)
(* ---------------------------------------------------------------------- *)
\* the nodes of the index in config/.org_metadata.  The id of a node is the
\* names on the way from its type node joined by '.', kept as a sequence; a
\* type node carries the xmlName of its type
Nodes ==
  { << "ApexClass" >>, << "ApexClass", "Foo" >>, << "ApexClass", "Bar" >>,
    << "CustomObject" >>, << "CustomObject", "Acct" >>,
    << "CustomObject", "Acct", "fields" >>, << "CustomObject", "Acct", "fields", "F1" >>,
    << "Document" >>, << "Document", "Dir" >>, << "Document", "Dir", "File" >> }

\* an index of an org that has no class yet and no custom object type
SparseNodes ==
  { << "ApexClass" >>,
    << "Document" >>, << "Document", "Dir" >>, << "Document", "Dir", "File" >> }

\* the nodes of the index a version of config/.org_metadata holds
IndexNodes(version) == IF version = "index1" THEN SparseNodes ELSE Nodes

\* node.children
Children(n) == { c \in Nodes : Len(c) = Len(n) + 1 /\ SubSeq(c, 1, Len(n)) = n }

\* the nodes above a node, up to its type node
Ancestors(n) == { SubSeq(n, 1, k) : k \in 1..(Len(n) - 1) }

\* the select flags of the index as it is read from the file
NoSelection == [n \in Nodes |-> FALSE]

\* a member of a package subscription: its names, and what separates them
Member(parts, sep) == [parts |-> parts, sep |-> sep]

\* member.split('.')
SplitDot(member) ==
  IF member.sep = "/" /\ Len(member.parts) = 2
  THEN << member.parts[1] \o "/" \o member.parts[2] >>
  ELSE member.parts

\* member.replace(/\//, '.'), as the names a join by '.' yields
SlashToDot(member) == member.parts

\* array[i] of a join: undefined joins as the empty string
PartOrEmpty(parts, i) == IF i \in DOMAIN parts THEN parts[i] ELSE ""

\* a wildcard that only names the type
SelectWildcardTypeOnly(st, xmlName) ==
  [st EXCEPT !.ids = @ \cup { << xmlName >> }]

\* packageMembers === '*': the type is pushed, the children of its node marked
SelectWildcard(st, xmlName) ==
  [st EXCEPT !.ids = @ \cup { << xmlName >> },
             !.select = [n \in Nodes |->
                           @[n] \/ (n \in st.nodes /\ n \in Children(<< xmlName >>))]]

\* a member list that addresses every member by Type.member
SelectMemberFlat(st, metadataType, member) ==
  [st EXCEPT !.ids = @ \cup { << metadataType.xmlName >> \o SplitDot(member) }]

\* one member of an explicit member list
SelectMember(st, metadataType, member) ==
  LET xmlName == metadataType.xmlName
      parentMetadataType == IF metadataType.parentXmlName # UNDEF
                            THEN getTypeByXmlName(metadataType.parentXmlName)
                            ELSE NoXmlType
  IN  IF metadataType.inFolder
      THEN [st EXCEPT !.ids = @ \cup { << xmlName >> \o SlashToDot(member) }]
      ELSE IF parentMetadataType # NoXmlType
      THEN [st EXCEPT !.ids = @ \cup { << parentMetadataType.xmlName,
                                          PartOrEmpty(SplitDot(member), 1),
                                          metadataType.tagName,
                                          PartOrEmpty(SplitDot(member), 2) >> }]
      ELSE IF metadataType.childXmlNames
      THEN IF << xmlName >> \in st.nodes
           THEN LET indexedNode == << xmlName >> \o SplitDot(member)
                    below == Children(indexedNode)
                             \cup UNION { Children(c) : c \in Children(indexedNode) }
                IN  [st EXCEPT !.ids = @ \cup { indexedNode },
                               !.select = [n \in Nodes |->
                                             @[n] \/ (n \in st.nodes /\ n \in below)]]
           ELSE st
      ELSE [st EXCEPT !.ids = @ \cup { << xmlName >> \o SplitDot(member) }]

RECURSIVE SelectMembers(_, _, _)
SelectMembers(st, metadataType, members) ==
  IF members = << >> THEN st
  ELSE SelectMembers(SelectMember(st, metadataType, Head(members)), metadataType,
                     Tail(members))

\* a loop that passes over an unrecognized type
SelectEntryLenient(st, entry) ==
  LET metadataType == getTypeByXmlName(entry.type)
  IN  IF metadataType = NoXmlType THEN st
      ELSE IF entry.wildcard THEN SelectWildcard(st, entry.type)
      ELSE SelectMembers(st, metadataType, entry.members)

\* the callback of _.forOwn(pkg.subscription) for one entry; an unrecognized
\* type rejects, and the loop goes on
SelectEntry(st, entry) ==
  LET metadataType == getTypeByXmlName(entry.type)
  IN  IF metadataType = NoXmlType THEN [st EXCEPT !.rejected = TRUE]
      ELSE IF entry.wildcard THEN SelectWildcard(st, entry.type)
      ELSE SelectMembers(st, metadataType, entry.members)

RECURSIVE SelectEntries(_, _)
SelectEntries(st, subscription) ==
  IF subscription = << >> THEN st
  ELSE SelectEntries(SelectEntry(st, Head(subscription)), Tail(subscription))

\* indexService.setChecked(orgMetadata, ids): the nodes with these ids are selected
setChecked(orgMetadata, ids) ==
  [n \in Nodes |-> orgMetadata.select[n] \/ (n \in orgMetadata.nodes /\ n \in ids)]

\* indexService.ensureParentsAreCheckedIfNecessary(orgMetadata): a node
\* above a selected node is selected
ensureParentsAreCheckedIfNecessary(select) ==
  [n \in Nodes |-> select[n] \/ \E d \in Nodes : select[d] /\ n \in Ancestors(d)]

\* indexService.setVisibility(orgMetadata, keyword): the nodes the keyword
\* names, and the nodes on the way to them
setVisibility(orgMetadata, keyword) ==
  { n \in orgMetadata.nodes : \E d \in orgMetadata.nodes :
                                    /\ d[Len(d)] = keyword
                                    /\ n \in Ancestors(d) \cup {d} }

\* a selection that leaves the nodes above a selected node alone
WithSelectionsOrphaned(orgMetadata, subscription, hasIds, ids) ==
  LET st0 == [nodes |-> orgMetadata.nodes, ids |-> {}, select |-> orgMetadata.select,
              rejected |-> FALSE]
      st == IF hasIds THEN [st0 EXCEPT !.ids = ids] ELSE SelectEntries(st0, subscription)
  IN  [rejected |-> st.rejected, ids |-> st.ids, select |-> setChecked(st, st.ids)]

\* the then-callback of getOrgMetadataIndexWithSelections: the ids come from
\* the caller or from the subscription, and the index is marked with them
WithSelections(orgMetadata, subscription, hasIds, ids) ==
  LET st0 == [nodes |-> orgMetadata.nodes, ids |-> {}, select |-> orgMetadata.select,
              rejected |-> FALSE]
      st == IF hasIds THEN [st0 EXCEPT !.ids = ids] ELSE SelectEntries(st0, subscription)
  IN  [rejected |-> st.rejected, ids |-> st.ids,
       select |-> ensureParentsAreCheckedIfNecessary(setChecked(st, st.ids))]

\* an entry of a subscription
Entry(type, wildcard, members) == [type |-> type, wildcard |-> wildcard, members |-> members]
All(type) == Entry(type, TRUE, << >>)
Listed(type, members) == Entry(type, FALSE, members)

\* the subscriptions a package descriptor may hold
Subscriptions ==
  { << All("ApexClass") >>,
    << Listed("ApexClass", << Member(<< "Foo" >>, ".") >>) >>,
    << All("CustomObject") >>,
    << Listed("CustomObject", << Member(<< "Acct" >>, ".") >>) >>,
    << Listed("CustomField", << Member(<< "Acct", "F1" >>, ".") >>) >>,
    << Listed("Document", << Member(<< "Dir", "File" >>, "/") >>), All("ApexClass") >>,
    << All("Widget"), All("ApexClass") >>,
    << Listed("ApexClass", << Member(<< "Gone" >>, ".") >>), All("Document") >> }

\* the ids a caller may pass
IdLists == { {}, { << "ApexClass", "Bar" >> } }

\* the index a call has not read: its nodes, their select flags, the nodes
\* made visible, and the ids the call marked it with
NoIndex == [present |-> FALSE, nodes |-> {}, select |-> NoSelection, visible |-> {},
            ids |-> {}]

(* ---------------------------------------------------------------------- *)
(* State                                                                   *)
(* ---------------------------------------------------------------------- *)
VARIABLES
  disk,      \* [Locs -> directory record]: the project directories on disk
  wsExists,  \* whether the workspace directory /ws exists
  tmp,       \* the directories temp.mkdirSync has made, in order
  env,       \* config.get('mm_workspace'), and what the caller uses the project for
  proj,      \* the fields of the Project instance
  pc,        \* where the call in flight is suspended; "idle" when none is
  op,        \* the API call in flight
  inner,     \* the promise of the workflow the call in flight waits for
  cfg,       \* _initConfig: its promise and that of Promise.all
  tasks,     \* _initConfig: the six writers it starts together
  retr,      \* the retrieveResult the call in flight holds
  result,    \* how the last API call settled
  pre,       \* the file system, the project and the last result when the
             \* call in flight (or the last call) started
  trace,     \* the steps the last _initExisting started, in order
  nOps,      \* API calls made so far
  nextId,    \* uuid.v1(): the next unused id
  args,      \* the arguments of the call in flight, and what it has computed
  co,        \* the compile the caller has made without waiting for the call
             \* in flight: where it is suspended and what it holds
  handler    \* the handler of 'sfdcclient-cache-refresh': the callbacks it
             \* waits for, and the exception that left it

NoDeploy == [id |-> 0, hasRetrieve |-> FALSE, fileProperties |-> << >>]
\* indexLightning was not called
NotAsked == << "not asked" >>

NoArgs == [props |-> << >>, input |-> "value", deployResult |-> NoDeploy,
           replacePackageXml |-> FALSE, lightning |-> NotAsked,
           key |-> UNDEF, value |-> UNDEF,
           keyword |-> UNDEF, hasIds |-> FALSE, ids |-> {}, packageLocation |-> UNDEF,
           subscription |-> << >>, index |-> NoIndex]

\* a compile that was not called: its position, its staging directory, the
\* deploy result and the store entries it holds, its promise, and the state
\* of the other call when it started and when it settled
NoCompile == [pc |-> "none", dir |-> [exists |-> FALSE, hasUnpackaged |-> FALSE,
                                       unpackaged |-> NoTree, zip |-> FALSE],
              deployResult |-> NoDeploy, deployed |-> FALSE, entries |-> {},
              state |-> "none", err |-> NoErr, atStart |-> "none", atEnd |-> "none"]

\* a handler that is not running
NoHandler == [write |-> "off", read |-> "off", token |-> UNDEF, runs |-> 0,
              uncaught |-> NoErr]

vars == << disk, wsExists, tmp, env, proj, pc, op, inner, cfg, tasks, retr,
           result, pre, trace, nOps, nextId, args, co, handler >>

\* a settled or pending promise
Pending       == [state |-> "pending",  err |-> NoErr, value |-> 0]
Resolved(v)   == [state |-> "resolved", err |-> NoErr, value |-> v]
Rejected(e)   == [state |-> "rejected", err |-> e,     value |-> 0]

NoOp     == [name |-> "none", isNewProject |-> FALSE, isExistingDirectory |-> FALSE]
NoResult == [op |-> NoOp, state |-> "none", err |-> NoErr, value |-> 0]

TaskNames == { "_writeSettings", "_writeSession", "_writeDebug",
               "_writeEditorSettings", "_refreshDescribeFromServer",
               "indexLightning" }
TasksOff  == [t \in TaskNames |-> "off"]
CfgOff    == [all |-> "off", promise |-> Pending]

\* the file system, and what a call finds when it starts
FileSystem == [disk |-> disk, wsExists |-> wsExists, tmp |-> tmp]
Snapshot   == [fs |-> FileSystem, proj |-> proj, result |-> result, env |-> env]

\* new Project(opts): applyProperties copies the options onto the instance;
\* path and workspace fall back to the prototype's null
Project(opts) ==
  [ path |-> opts.path, workspace |-> opts.workspace, name |-> opts.name,
    origin |-> opts.origin, sfdcClient |-> opts.sfdcClient,
    accessToken |-> IF opts.sfdcClient = "ready" THEN "tok1" ELSE UNDEF,
    id |-> 0, initialized |-> FALSE, valid |-> UNDEF,
    package |-> UNDEF, describe |-> UNDEF, settings |-> UNDEF,
    cachedSession |-> UNDEF, packageXml |-> UNDEF, orgMetadata |-> UNDEF,
    logService |-> UNDEF,
    password |-> IF opts.sfdcClient = "ready" THEN "pw0" ELSE UNDEF,
    clientNo |-> IF opts.sfdcClient = "ready" THEN 1 ELSE 0,
    cacheRefreshListeners |-> 0, newLogListeners |-> 0 ]

\* directories a behaviour may start from
MetadataDir ==
  [EmptyDir EXCEPT !.hasSrc = TRUE,
                   !.src = [NoTree EXCEPT ![Manifest] = "local", !["classes/A.cls"] = "local"]]
SrcOnlyDir ==
  [EmptyDir EXCEPT !.hasSrc = TRUE,
                   !.src = [NoTree EXCEPT !["classes/A.cls"] = "local"]]
OldEntry(key, fullName, fileName) ==
  [key |-> key, fullName |-> fullName, fileName |-> fileName, mmState |-> "clean"]
MavensMateDir ==
  [MetadataDir EXCEPT
     !.config = TRUE,
     !.cfg = [NoCfg EXCEPT ![".settings"] = Stringify(Settings0), ![".session"] = "tok0",
                           ![".debug"] = "debug0", ![".describe"] = "describe0",
                           ![".org_metadata"] = "index0"],
     !.editor = "editor0",
     !.store = [present |-> TRUE,
                entries |-> { OldEntry("A.cls", "A", "unpackaged/classes/A.cls"),
                              OldEntry("Old.cls", "Old", "unpackaged/classes/Old.cls") }]]

NewOpts ==
  { [path |-> NULL, workspace |-> w, name |-> "Proj1", origin |-> UNDEF,
     sfdcClient |-> "ready"] : w \in {NULL, WsDir} }
FromDirOpts ==
  { [path |-> NULL, workspace |-> w, name |-> "Proj1", origin |-> o,
     sfdcClient |-> "ready"] : w \in {NULL, WsDir}, o \in {ExtDir, ProjDir} }
ExistingOpts ==
  { [path |-> p, workspace |-> w, name |-> n, origin |-> UNDEF,
     sfdcClient |-> "none"] :
       p \in {NULL, UNDEF, ProjDir, ExtDir}, w \in {NULL, UNDEF, WsDir},
       n \in {UNDEF, "Proj1"} }

InitRest(opts) ==
  /\ proj = Project(opts)
  /\ pc = "idle"
  /\ op = NoOp
  /\ inner = Pending
  /\ cfg = CfgOff
  /\ tasks = TasksOff
  /\ retr = NoAnswer
  /\ result = NoResult
  /\ pre = [fs |-> [disk |-> disk, wsExists |-> wsExists, tmp |-> tmp],
            proj |-> Project(opts), result |-> NoResult, env |-> env]
  /\ trace = << >>
  /\ nOps = 0
  /\ nextId = 1
  /\ args = NoArgs
  /\ co = NoCompile
  /\ handler = NoHandler

\* a new project: nothing, or some directory, at /ws/Proj1
InitNewProject ==
  /\ \E p \in {NoDir, EmptyDir} :
       disk = [l \in Locs |-> IF l = ProjDir THEN p ELSE EmptyDir]
  /\ wsExists \in (IF disk[ProjDir].exists THEN {TRUE} ELSE BOOLEAN)
  /\ \E o \in NewOpts, m \in {UNDEF, WsDir} :
       /\ m = UNDEF \/ o.workspace = NULL
       /\ env = [kind |-> "new", mm_workspace |-> m, useSystemKeychain |-> TRUE,
                  keychain |-> UNDEF]
       /\ tmp = << >>
       /\ InitRest(o)

\* a new project that two callers set out to make at /ws/Proj1, each with
\* an instance of its own
InitTwin ==
  /\ disk = [l \in Locs |-> IF l = ProjDir THEN NoDir ELSE EmptyDir]
  /\ wsExists = TRUE
  /\ env = [kind |-> "twin", mm_workspace |-> UNDEF, useSystemKeychain |-> TRUE,
                  keychain |-> UNDEF]
  /\ tmp = << >>
  /\ InitRest([path |-> NULL, workspace |-> WsDir, name |-> "Proj1", origin |-> UNDEF,
               sfdcClient |-> "ready"])

\* a new project from a directory of metadata
InitFromDirectory ==
  /\ \E p \in {NoDir, MetadataDir}, e \in {MetadataDir, SrcOnlyDir, EmptyDir} :
       disk = [l \in Locs |-> IF l = ProjDir THEN p ELSE IF l = ExtDir THEN e ELSE EmptyDir]
  /\ wsExists \in (IF disk[ProjDir].exists THEN {TRUE} ELSE BOOLEAN)
  /\ \E o \in FromDirOpts :
       /\ o.origin = ProjDir => disk[ExtDir] = EmptyDir
       /\ env = [kind |-> "dir", mm_workspace |-> UNDEF, useSystemKeychain |-> TRUE,
                  keychain |-> UNDEF]
       /\ tmp = << >>
       /\ InitRest(o)

\* a project that may be on disk at /ws/Proj1, in the working directory, or elsewhere
InitExistingProject ==
  /\ disk \in [Locs -> {MavensMateDir, MetadataDir}]
  /\ wsExists = TRUE
  /\ \E o \in ExistingOpts :
       \* the directories the options cannot lead to are all alike, and
       \* workspace and name are left out when the path is given
       /\ IsString(o.path) => o.workspace = NULL /\ o.name = UNDEF
       /\ \A l \in Locs :
            \/ disk[l] = MavensMateDir
            \/ IF IsString(o.path) THEN l = o.path ELSE l \in {ProjDir, CwdDir}
       /\ env = [kind |-> "existing", mm_workspace |-> UNDEF, useSystemKeychain |-> TRUE,
            keychain |-> "pw0"]
       /\ tmp = << >>
       /\ InitRest(o)

\* a staging directory a retrieve of the members S was unpacked into
Staged(S) == [exists |-> TRUE, hasUnpackaged |-> TRUE, unpackaged |-> StagedTree(S),
              zip |-> FALSE]

\* a project that was created before, about to be opened and worked on; a
\* retrieve was staged for it
InitOpened ==
  /\ disk = [l \in Locs |-> MavensMateDir]
  /\ wsExists = TRUE
  /\ \E S \in RetrieveAnswers : tmp = << Staged(S) >>
  /\ env = [kind |-> "opened", mm_workspace |-> UNDEF, useSystemKeychain |-> TRUE,
            keychain |-> "pw0"]
  /\ InitRest([path |-> ProjDir, workspace |-> NULL, name |-> UNDEF,
               origin |-> UNDEF, sfdcClient |-> "none"])

\* a project created before for an org that has no class yet and no custom
\* object type, about to be opened and asked for its index
InitSparse ==
  /\ disk = [l \in Locs |->
               [MavensMateDir EXCEPT !.cfg[".org_metadata"] = "index1"]]
  /\ wsExists = TRUE
  /\ tmp = << >>
  /\ env = [kind |-> "sparse", mm_workspace |-> UNDEF, useSystemKeychain |-> TRUE,
            keychain |-> "pw0"]
  /\ InitRest([path |-> ProjDir, workspace |-> NULL, name |-> UNDEF,
               origin |-> UNDEF, sfdcClient |-> "none"])

\* a project created before, about to be opened and refreshed while the
\* network client renews its access token
InitSession ==
  /\ disk = [l \in Locs |-> MavensMateDir]
  /\ wsExists = TRUE
  /\ tmp = << >>
  /\ env = [kind |-> "session", mm_workspace |-> UNDEF, useSystemKeychain |-> TRUE,
            keychain |-> "pw0"]
  /\ InitRest([path |-> ProjDir, workspace |-> NULL, name |-> UNDEF,
               origin |-> UNDEF, sfdcClient |-> "none"])

\* a project created before, about to be opened, refreshed and compiled by
\* a caller that does not wait for the one before it calls the other
InitRace ==
  /\ disk = [l \in Locs |-> MavensMateDir]
  /\ wsExists = TRUE
  /\ tmp = << >>
  /\ env = [kind |-> "race", mm_workspace |-> UNDEF, useSystemKeychain |-> TRUE,
            keychain |-> "pw0"]
  /\ InitRest([path |-> ProjDir, workspace |-> NULL, name |-> UNDEF,
               origin |-> UNDEF, sfdcClient |-> "none"])

\* a new project about to be made, with the system keychain or without
InitBootstrap ==
  /\ disk = [l \in Locs |-> IF l = ProjDir THEN NoDir ELSE EmptyDir]
  /\ wsExists = TRUE
  /\ \E k \in BOOLEAN :
       env = [kind |-> "bootstrap", mm_workspace |-> UNDEF, useSystemKeychain |-> k,
              keychain |-> UNDEF]
  /\ tmp = << >>
  /\ InitRest([path |-> NULL, workspace |-> WsDir, name |-> "Proj1", origin |-> UNDEF,
               sfdcClient |-> "ready"])

\* a project created before, with its password in config/.settings or not,
\* in the keychain or not, about to be opened and given other credentials
InitKeyring ==
  /\ \E o \in {Settings0, Settings0Inline} :
       disk = [l \in Locs |-> [MavensMateDir EXCEPT !.cfg[".settings"] = Stringify(o)]]
  /\ wsExists = TRUE
  /\ tmp = << >>
  /\ \E k \in BOOLEAN, secret \in {UNDEF, "pw1"} :
       env = [kind |-> "keyring", mm_workspace |-> UNDEF, useSystemKeychain |-> k,
              keychain |-> secret]
  /\ InitRest([path |-> ProjDir, workspace |-> NULL, name |-> UNDEF,
               origin |-> UNDEF, sfdcClient |-> "none"])

\* the uses a project that was created before is opened for
OpenedKinds == {"opened", "sparse", "session", "race", "keyring"}

Init ==
  \/ InitNewProject
  \/ InitFromDirectory
  \/ InitExistingProject
  \/ InitOpened
  \/ InitSparse
  \/ InitSession
  \/ InitRace

(* ---------------------------------------------------------------------- *)
(* File-system primitives                                                  *)
(* ---------------------------------------------------------------------- *)
\* fs.existsSync(p) for a project directory
ExistsSync(dk, p) == p \in Locs /\ dk[p].exists

\* fs.existsSync(workspace)
WorkspaceExists(wsE, w) == IF w = WsDir THEN wsE ELSE TRUE

\* every writer of _initConfig has settled
TasksSettled == \A t \in TaskNames : tasks[t] \in {"off", "ok", "err"}

\* nothing of an earlier call is still running
Quiescent == pc = "idle" /\ TasksSettled

\* the calls that bring the whole project in line with the server
Resyncs == {"edit", "clean"}

\* an API call starts.  The caller chains its calls on the project: the next
\* one is made when the last one has settled, and none after a rejection,
\* except that the initialization of an existing project is tried once more
\* and that a failed initialization is answered with other credentials.
\* It brings the project in line with the server when it has opened it, or
\* after it has compiled or refreshed it, and it compiles next.
BeginCallWith(call, a) ==
  /\ Quiescent
  /\ call.name \in Resyncs => result.op.name \in {"initialize", "compile", "refreshFromServer"}
  /\ result.op.name \in Resyncs => call.name = "compile"
  /\ result.state # "rejected" \/ result.op = call \/ call.name = "updateCreds"
  /\ result.state = "rejected" => \/ /\ env.kind \in {"existing", "opened"}
                                     /\ call.name = "initialize"
                                     /\ pre.result.state # "rejected"
                                  \/ /\ call.name = "updateCreds"
                                     /\ result.op.name = "initialize"
  /\ nOps < MaxOps
  /\ nOps' = nOps + 1
  /\ op' = call
  /\ pre' = Snapshot
  /\ cfg' = CfgOff
  /\ tasks' = TasksOff
  /\ retr' = NoAnswer
  /\ args' = a
  /\ UNCHANGED << co, handler >>

\* a call without arguments starts
BeginCall(call) == BeginCallWith(call, NoArgs)

\* the call is suspended at label
Suspend(label) ==
  /\ pc' = label
  /\ result' = NoResult

\* the call settles
SettleCall(call, promise) ==
  /\ pc' = "idle"
  /\ result' = [op |-> call, state |-> promise.state, err |-> promise.err,
                value |-> promise.value]

Settle(promise) == SettleCall(op, promise)

\* a call of a method of an opened project
Method(name) == [name |-> name, isNewProject |-> FALSE, isExistingDirectory |-> FALSE]

(* ---------------------------------------------------------------------- *)
(* _initNew (project.js 295-327): synchronous                              *)
(* ---------------------------------------------------------------------- *)
\* the workspace _initNew settles on: the project's, else config mm_workspace
NewWorkspace(p, mm) == IF Falsy(p.workspace) THEN mm ELSE p.workspace

\* a workspace directory made before the workspace is known to be set
MakeWorkspaceEager(wsE, workspace) == TRUE

\* whether /ws exists after the fs.mkdirSync(workspace) of _initNew, which
\* runs for a workspace that is set and missing
MakeWorkspace(wsE, workspace) ==
  wsE \/ (IsString(workspace) /\ workspace = WsDir /\ ~WorkspaceExists(wsE, workspace))

\* an _initNew without the test for the project directory
InitNewOutcomeUnchecked(p, mm, wsE, dk, id) ==
  LET workspace == NewWorkspace(p, mm)
      wsE1      == MakeWorkspace(wsE, workspace)
      p1        == [p EXCEPT !.workspace = workspace]
  IN  IF Falsy(workspace)
      THEN [proj |-> p1, wsExists |-> wsE1, promise |-> Rejected(ErrNoWorkspace)]
      ELSE [proj |-> [p1 EXCEPT !.path = Join(workspace, p.name), !.id = id],
            wsExists |-> wsE1, promise |-> Resolved(id)]

\* the project, the workspace directory and the promise after _initNew
InitNewOutcome(p, mm, wsE, dk, id) ==
  LET workspace == NewWorkspace(p, mm)
      wsE1      == MakeWorkspace(wsE, workspace)
      p1        == [p EXCEPT !.workspace = workspace]
  IN  IF Falsy(workspace)
      THEN [proj |-> p1, wsExists |-> wsE1, promise |-> Rejected(ErrNoWorkspace)]
      ELSE LET path == Join(workspace, p.name)
               p2   == [p1 EXCEPT !.path = path]
           IN  IF ExistsSync(dk, path)
               THEN [proj |-> p2, wsExists |-> wsE1, promise |-> Rejected(ErrDirExists)]
               ELSE [proj |-> [p2 EXCEPT !.id = id], wsExists |-> wsE1,
                     promise |-> Resolved(id)]

\* initialize(true): the new-project path
initialize_initNew ==
  /\ env.kind \in {"new", "twin", "bootstrap"}
  /\ env.kind \in {"twin", "bootstrap"} => result.state = "none"
  /\ BeginCall([name |-> "initialize", isNewProject |-> TRUE, isExistingDirectory |-> FALSE])
  /\ LET out == InitNewOutcome(proj, env.mm_workspace, wsExists, disk, nextId)
     IN  /\ proj' = out.proj
         /\ wsExists' = out.wsExists
         /\ inner' = out.promise
         /\ nextId' = IF out.promise.state = "resolved" THEN nextId + 1 ELSE nextId
  /\ Suspend("initialize")
  /\ UNCHANGED << disk, tmp, env, trace >>

(* ---------------------------------------------------------------------- *)
(* initialize (project.js 80-111): the handlers on the workflow's promise  *)
(* ---------------------------------------------------------------------- *)
\* an initialize that sets the flag in both handlers
InitializeThenAlways(p, promise) == [p EXCEPT !.initialized = TRUE]

\* the project after the .then / .catch of initialize
InitializeThen(p, promise) ==
  IF promise.state = "resolved" THEN [p EXCEPT !.initialized = TRUE] ELSE p

initialize_settle ==
  /\ pc = "initialize"
  /\ inner.state # "pending"
  /\ proj' = InitializeThen(proj, inner)
  /\ Settle(IF inner.state = "resolved" THEN Resolved(proj'.id) ELSE inner)
  /\ UNCHANGED << disk, wsExists, tmp, env, op, inner, cfg, tasks, retr, pre,
                  trace, nOps, nextId >>
  /\ UNCHANGED << args, co, handler >>

(* ---------------------------------------------------------------------- *)
(* Writers of the config directory                                         *)
(* ---------------------------------------------------------------------- *)
\* fs.outputFile / outputFileSync of a config file: the missing parent
\* directories are made, then the file is written.  The exists / mkdirs /
\* writeFile sequence of fs.outputFile is taken as one step.
OutputConfigFile(dk, path, f, content) ==
  [dk EXCEPT ![path] = [@ EXCEPT !.exists = TRUE, !.config = TRUE, !.cfg[f] = content]]

\* fs.outputFile of <name>.sublime-project in the project root
OutputEditorFile(dk, path, content) ==
  [dk EXCEPT ![path] = [@ EXCEPT !.exists = TRUE, !.editor = content]]

\* fs.outputFile of config/.local_store
OutputLocalStore(dk, path, entries) ==
  [dk EXCEPT ![path] = [@ EXCEPT !.exists = TRUE, !.config = TRUE,
                                  !.store = [present |-> TRUE, entries |-> entries]]]

\* mkdirs makes the workspace directory too when the project lives in it
WorkspaceAfterWrite(wsE, path) == wsE \/ Dirname(path) = WsDir

\* the settings _writeSettings (project.js 1231-1256) puts together: the
\* password is among them only when the system keychain is not in use
WrittenSettings(p, e) ==
  [Settings0 EXCEPT !.password = IF ~e.useSystemKeychain THEN p.password ELSE UNDEF]

\* what each of the four plain writers of _initConfig writes
WriterContent(t) ==
  CASE t = "_writeSettings"       -> Stringify(WrittenSettings(proj, env))
    [] t = "_writeSession"        -> proj.accessToken
    [] t = "_writeDebug"          -> "debug1"
    [] OTHER                      -> "editor1"

WriterFile(t) ==
  CASE t = "_writeSettings" -> ".settings"
    [] t = "_writeSession"  -> ".session"
    [] OTHER                -> ".debug"

PlainWriters == { "_writeSettings", "_writeSession", "_writeDebug", "_writeEditorSettings" }

(* ---------------------------------------------------------------------- *)
(* _initConfig (project.js 451-477)                                        *)
(* ---------------------------------------------------------------------- *)
\* the six promises are created together: the four writers have called
\* fs.outputFile, the other two wait for the network
InitConfigStarted ==
  [t \in TaskNames |-> IF t \in PlainWriters THEN "write" ELSE "net"]

CfgRunning == [all |-> "pending", promise |-> Pending]

\* a Promise.all that resolves as soon as one of the six is fulfilled
InitConfigAfterFirst(c, ts, err) ==
  IF c.all # "pending" THEN c
  ELSE IF err # NoErr THEN [all |-> "rejected", promise |-> Rejected(err)]
  ELSE IF \E t \in TaskNames : ts[t] = "ok" THEN [c EXCEPT !.all = "resolved"]
  ELSE c

\* Promise.all after task t settled as st: it rejects with the first failure
\* and resolves when all six are fulfilled; a rejection goes through the
\* .catch of _initConfig to its own promise
InitConfigAfter(c, ts, err) ==
  IF c.all # "pending" THEN c
  ELSE IF err # NoErr THEN [all |-> "rejected", promise |-> Rejected(err)]
  ELSE IF \A t \in TaskNames : ts[t] = "ok" THEN [c EXCEPT !.all = "resolved"]
  ELSE c

\* the six promises are dropped once every one of them has settled
Retire(ts) ==
  IF \A t \in TaskNames : ts[t] \in {"ok", "err"} THEN TasksOff ELSE ts

\* task t moves to st; err is what it rejected with, if it did
TaskStep(t, st, err) ==
  LET ts == [tasks EXCEPT ![t] = st]
  IN  /\ cfg' = InitConfigAfter(cfg, ts, err)
      /\ tasks' = Retire(ts)

\* a plain writer's fs.outputFile completes
initConfig_write(t) ==
  /\ t \in PlainWriters
  /\ tasks[t] = "write"
  /\ \E ok \in BOOLEAN :
       IF ok
       THEN /\ disk' = IF t = "_writeEditorSettings"
                       THEN OutputEditorFile(disk, proj.path, WriterContent(t))
                       ELSE OutputConfigFile(disk, proj.path, WriterFile(t), WriterContent(t))
            /\ wsExists' = WorkspaceAfterWrite(wsExists, proj.path)
            /\ TaskStep(t, "ok", NoErr)
       ELSE /\ TaskStep(t, "err", ErrIO)
            /\ UNCHANGED << disk, wsExists >>
  /\ UNCHANGED << tmp, env, proj, pc, op, inner, retr, result, pre, trace, nOps, nextId >>
  /\ UNCHANGED << args, co, handler >>

\* _refreshDescribeFromServer: describe() answers; setDescribe writes
\* config/.describe only when the config directory exists
initConfig_describe ==
  /\ tasks["_refreshDescribeFromServer"] = "net"
  /\ \E e \in {NoErr, ErrNet} :
       IF e = NoErr
       THEN IF disk[proj.path].config
            THEN /\ TaskStep("_refreshDescribeFromServer", "write", NoErr)
                 /\ UNCHANGED proj
            ELSE /\ proj' = [proj EXCEPT !.describe = "describe1"]
                 /\ TaskStep("_refreshDescribeFromServer", "ok", NoErr)
       ELSE /\ TaskStep("_refreshDescribeFromServer", "err", e)
            /\ UNCHANGED proj
  /\ UNCHANGED << disk, wsExists, tmp, env, pc, op, inner, retr, result, pre,
                  trace, nOps, nextId >>
  /\ UNCHANGED << args, co, handler >>

\* setDescribe: fs.outputFile of config/.describe completes
initConfig_setDescribe ==
  /\ tasks["_refreshDescribeFromServer"] = "write"
  /\ \E ok \in BOOLEAN :
       IF ok
       THEN /\ disk' = OutputConfigFile(disk, proj.path, ".describe", "describe1")
            /\ wsExists' = WorkspaceAfterWrite(wsExists, proj.path)
            /\ proj' = [proj EXCEPT !.describe = "describe1"]
            /\ TaskStep("_refreshDescribeFromServer", "ok", NoErr)
       ELSE /\ TaskStep("_refreshDescribeFromServer", "err", ErrIO)
            /\ UNCHANGED << disk, wsExists, proj >>
  /\ UNCHANGED << tmp, env, pc, op, inner, retr, result, pre, trace, nOps, nextId >>
  /\ UNCHANGED << args, co, handler >>

\* indexLightning (project.js 892-914): getAll() answers; setLightningIndex
\* writes config/.lightning with outputFileSync; an org without the feature
\* is tolerated
\* an indexLightning that tolerates every failure of the collaborator
IndexLightningToleratesAll(err) ==
  \/ Contains(err, "sObject type 'AuraDefinition' is not supported")
  \/ Contains(err, "requested resource does not exist")
  \/ err \in CollabErrs

IndexLightningTolerates(err) ==
  \/ Contains(err, "sObject type 'AuraDefinition' is not supported")
  \/ Contains(err, "requested resource does not exist")

\* what lightningService.getAll() may fail with, and ErrIO for an
\* outputFileSync of setLightningIndex that threw
LightningErrs == { ErrNet, ErrNotSupported, ErrNoResource, ErrIO }

initConfig_indexLightning ==
  /\ tasks["indexLightning"] = "net"
  /\ \E e \in {NoErr} \cup LightningErrs :
       /\ args' = [args EXCEPT !.lightning = e]
       /\ IF e = NoErr
          THEN /\ disk' = OutputConfigFile(disk, proj.path, ".lightning", "lightning1")
               /\ wsExists' = WorkspaceAfterWrite(wsExists, proj.path)
               /\ TaskStep("indexLightning", "ok", NoErr)
          ELSE /\ IF IndexLightningTolerates(e)
                  THEN TaskStep("indexLightning", "ok", NoErr)
                  ELSE TaskStep("indexLightning", "err", e)
               /\ UNCHANGED << disk, wsExists >>
  /\ UNCHANGED << tmp, env, proj, pc, op, inner, retr, result, pre, trace, nOps, nextId >>
  /\ UNCHANGED << co, handler >>

(* ---------------------------------------------------------------------- *)
(* updateSetting (project.js 657-684), _storePassword (1371-1410),         *)
(* _getPassword (1412-1436): synchronous                                   *)
(* ---------------------------------------------------------------------- *)
\* the keychain service: one secret per project. A lookup answers the
\* secret it holds, or throws (THREW) when it holds none or cannot be asked
THREW == "threw"
KeychainGetPassword(e, lookupOk) ==
  IF lookupOk /\ e.keychain # UNDEF THEN e.keychain ELSE THREW

\* storePassword and replacePassword put the secret in the place of the
\* one held
KeychainStorePassword(e, secret) == [e EXCEPT !.keychain = secret]

\* an updateSetting that assigns self.settings before it writes the file
UpdateSettingEager(dk, p, key, value, readOk, writeOk) ==
  LET text == dk[p.path].cfg[".settings"]
  IN  IF text = ABSENT \/ ~readOk
      THEN [disk |-> dk, proj |-> p, promise |-> Rejected(ErrSettingsRead)]
      ELSE LET settings == [ParseSettings(text) EXCEPT ![key] = value]
               p1       == [p EXCEPT !.settings = Stringify(settings)]
           IN  IF writeOk
               THEN [disk |-> [dk EXCEPT ![p.path].cfg[".settings"] = Stringify(settings)],
                     proj |-> p1, promise |-> Resolved(0)]
               ELSE [disk |-> dk, proj |-> p1, promise |-> Rejected(ErrIO)]

\* the disk, the project and the promise after updateSetting(key, value).
\* When readJsonSync throws the promise is rejected, and the assignment
\* settings[key] = value that follows throws on undefined, which ends the
\* executor; when writeFileSync throws nothing is assigned
UpdateSetting(dk, p, key, value, readOk, writeOk) ==
  LET text == dk[p.path].cfg[".settings"]
  IN  IF text = ABSENT \/ ~readOk
      THEN [disk |-> dk, proj |-> p, promise |-> Rejected(ErrSettingsRead)]
      ELSE LET settings == [ParseSettings(text) EXCEPT ![key] = value]
           IN  IF writeOk
               THEN [disk |-> [dk EXCEPT ![p.path].cfg[".settings"] = Stringify(settings)],
                     proj |-> [p EXCEPT !.settings = Stringify(settings)],
                     promise |-> Resolved(0)]
               ELSE [disk |-> dk, proj |-> p, promise |-> Rejected(ErrIO)]

\* a _storePassword that leaves the password of config/.settings alone when
\* the keychain has taken the secret
StorePasswordKeeping(dk, p, e, pw, replace, keychainOk, readOk, writeOk) ==
  LET secret == IF pw # UNDEF THEN pw ELSE p.password
  IN  IF e.useSystemKeychain
      THEN IF p.id = 0 /\ p.settings = UNDEF
           THEN [disk |-> dk, proj |-> p, env |-> e, promise |-> Rejected(ErrUndefinedId)]
           ELSE IF ~keychainOk
           THEN [disk |-> dk, proj |-> p, env |-> e, promise |-> Rejected(ErrKeychain)]
           ELSE [disk |-> dk, proj |-> p, env |-> KeychainStorePassword(e, secret),
                 promise |-> Resolved(0)]
      ELSE LET u == UpdateSetting(dk, p, "password", secret, readOk, writeOk)
           IN  [disk |-> u.disk, proj |-> u.proj, env |-> e, promise |-> u.promise]

\* the disk, the project, the keychain and the promise after
\* _storePassword(pw, replace): with the system keychain the secret goes to
\* the keychain and the password property is cleared from config/.settings,
\* without it the secret goes to config/.settings
StorePassword(dk, p, e, pw, replace, keychainOk, readOk, writeOk) ==
  LET secret == IF pw # UNDEF THEN pw ELSE p.password
  IN  IF e.useSystemKeychain
      THEN IF p.id = 0 /\ p.settings = UNDEF
           THEN \* self.id || self.settings.id threw
                [disk |-> dk, proj |-> p, env |-> e, promise |-> Rejected(ErrUndefinedId)]
           ELSE IF ~keychainOk
           THEN \* replacePassword / storePassword threw
                [disk |-> dk, proj |-> p, env |-> e, promise |-> Rejected(ErrKeychain)]
           ELSE LET u == UpdateSetting(dk, p, "password", UNDEF, readOk, writeOk)
                IN  [disk |-> u.disk, proj |-> u.proj,
                     env |-> KeychainStorePassword(e, secret), promise |-> u.promise]
      ELSE LET u == UpdateSetting(dk, p, "password", secret, readOk, writeOk)
           IN  [disk |-> u.disk, proj |-> u.proj, env |-> e, promise |-> u.promise]

\* a _getPassword that asks the keychain first
GetPasswordKeychainFirst(settings, e, lookupOk) ==
  IF e.useSystemKeychain
  THEN IF KeychainGetPassword(e, lookupOk) # THREW
       THEN [err |-> NoErr, pw |-> KeychainGetPassword(e, lookupOk)]
       ELSE [err |-> ErrKeychain, pw |-> UNDEF]
  ELSE IF settings.password # UNDEF
  THEN [err |-> NoErr, pw |-> settings.password]
  ELSE [err |-> ErrNoPassword, pw |-> UNDEF]

\* _getPassword: the password of config/.settings when there is one, else
\* the one the keychain holds for the project; the error it rejects with
GetPassword(settings, e, lookupOk) ==
  IF settings.password # UNDEF
  THEN [err |-> NoErr, pw |-> settings.password]
  ELSE IF e.useSystemKeychain
  THEN IF KeychainGetPassword(e, lookupOk) # THREW
       THEN [err |-> NoErr, pw |-> KeychainGetPassword(e, lookupOk)]
       ELSE [err |-> ErrKeychain, pw |-> UNDEF]
  ELSE [err |-> ErrNoPassword, pw |-> UNDEF]

\* _storePassword after Promise.all resolved
initConfig_storePassword ==
  /\ cfg.all = "resolved"
  /\ cfg.promise.state = "pending"
  /\ \E keychainOk, readOk, writeOk \in BOOLEAN :
       LET out == StorePassword(disk, proj, env, UNDEF, FALSE, keychainOk, readOk, writeOk)
       IN  /\ disk' = out.disk
           /\ proj' = out.proj
           /\ env' = out.env
           /\ cfg' = [cfg EXCEPT !.promise = out.promise]
  /\ UNCHANGED << wsExists, tmp, pc, op, inner, tasks, retr, result,
                  pre, trace, nOps, nextId >>
  /\ UNCHANGED << args, co, handler >>

(* ---------------------------------------------------------------------- *)
(* retrieveAndWriteToDisk (project.js 392-445)                             *)
(* ---------------------------------------------------------------------- *)
\* the .catch of retrieveAndWriteToDisk: the project directory is removed
RetrieveRollback(dk, path) ==
  IF ExistsSync(dk, path) THEN [dk EXCEPT ![path] = NoDir] ELSE dk

\* the retrieve unzipped its answer into <path>/unpackaged
Unpackaged(dk, path, members) ==
  [dk EXCEPT ![path] = [@ EXCEPT !.hasUnpackaged = TRUE, !.unpackaged = StagedTree(members)]]

\* fs.renameSync(<path>/unpackaged, <path>/src)
RenameUnpackagedToSrc(dk, path) ==
  IF dk[path].hasUnpackaged
  THEN [dk EXCEPT ![path] = [@ EXCEPT !.hasSrc = TRUE, !.src = dk[path].unpackaged,
                                      !.hasUnpackaged = FALSE, !.unpackaged = NoTree]]
  ELSE dk

\* the call starts: it rejects at once when the path exists, else it asks
\* the server for the describe
retrieveAndWriteToDisk ==
  /\ env.kind \in {"new", "twin", "bootstrap"}
  /\ env.kind \in {"twin", "bootstrap"} => result.op.name = "initialize"
  /\ proj.initialized
  /\ BeginCall([name |-> "retrieveAndWriteToDisk", isNewProject |-> FALSE,
                isExistingDirectory |-> FALSE])
  /\ IF ExistsSync(disk, proj.path)
     THEN /\ SettleCall(op', Rejected(ErrPathTaken))
          /\ UNCHANGED proj
     ELSE /\ proj' = [proj EXCEPT !.package = IF proj.package = UNDEF THEN "standard" ELSE @]
          /\ Suspend("rw_describe")
  /\ UNCHANGED << disk, wsExists, tmp, env, inner, trace, nextId >>

\* describe() answers: setDescribe, then the project directory and its
\* config directory are made and the retrieve is sent
rw_describe ==
  /\ pc = "rw_describe"
  /\ \/ \E e \in CollabErrs :
          /\ disk' = RetrieveRollback(disk, proj.path)
          /\ Settle(Rejected(e))
          /\ UNCHANGED << proj, wsExists >>
     \/ \E thrown \in {"none", "mkdirPath", "mkdirConfig"} :
          \* setDescribe only keeps the describe: there is no config directory
          \* yet; then fs.mkdirSync(path) and fs.mkdirSync(path/config)
          LET path    == Join(proj.workspace, proj.name)
              canMake == wsExists /\ ~ExistsSync(disk, path)
              made    == [disk EXCEPT ![path] = EmptyDir]
          IN  /\ proj' = [proj EXCEPT !.describe = "describe1", !.path = path]
              /\ UNCHANGED wsExists
              /\ IF ~canMake \/ thrown = "mkdirPath"
                 THEN /\ disk' = RetrieveRollback(disk, path)
                      /\ Settle(Rejected(ErrIO))
                 ELSE IF thrown = "mkdirConfig"
                 THEN /\ disk' = RetrieveRollback(made, path)
                      /\ Settle(Rejected(ErrIO))
                 ELSE /\ disk' = [made EXCEPT ![path].config = TRUE]
                      /\ pc' = "rw_retrieve"
                      /\ UNCHANGED result
  /\ UNCHANGED << tmp, env, op, inner, cfg, tasks, retr, pre, trace, nOps, nextId >>
  /\ UNCHANGED << args, co, handler >>

\* retrieveUnpackaged answers: unpackaged becomes src and _initConfig starts
rw_retrieve ==
  /\ pc = "rw_retrieve"
  /\ \/ \E e \in CollabErrs :
          /\ disk' = RetrieveRollback(disk, proj.path)
          /\ Settle(Rejected(e))
          /\ UNCHANGED << retr, cfg, tasks >>
     \/ \E members \in RetrieveAnswers, renamed \in BOOLEAN :
          LET d1 == Unpackaged(disk, proj.path, members)
          IN  /\ retr' = [members |-> members, fileProperties |-> FileProperties(members)]
              /\ IF renamed
                 THEN /\ disk' = RenameUnpackagedToSrc(d1, proj.path)
                      /\ cfg' = CfgRunning
                      /\ tasks' = InitConfigStarted
                      /\ pc' = "rw_config"
                      /\ UNCHANGED result
                 ELSE \* fs.renameSync threw
                      /\ disk' = RetrieveRollback(d1, proj.path)
                      /\ Settle(Rejected(ErrIO))
                      /\ UNCHANGED << cfg, tasks >>
  /\ UNCHANGED << wsExists, tmp, env, proj, op, inner, pre, trace, nOps, nextId >>
  /\ UNCHANGED << args, co, handler >>

\* _initConfig settled: the local store is written, or the directory removed
rw_config ==
  /\ pc = "rw_config"
  /\ cfg.promise.state # "pending"
  /\ IF cfg.promise.state = "resolved"
     THEN /\ pc' = "rw_store"
          /\ UNCHANGED << disk, result >>
     ELSE /\ disk' = RetrieveRollback(disk, proj.path)
          /\ Settle(cfg.promise)
  /\ UNCHANGED << wsExists, tmp, env, proj, op, inner, cfg, tasks, retr, pre,
                  trace, nOps, nextId >>
  /\ UNCHANGED << args, co, handler >>

\* _writeLocalStore: fs.outputFile of config/.local_store completes
rw_store ==
  /\ pc = "rw_store"
  /\ \E ok \in BOOLEAN :
       IF ok
       THEN /\ disk' = OutputLocalStore(disk, proj.path, LocalStoreFrom(retr.fileProperties))
            /\ wsExists' = WorkspaceAfterWrite(wsExists, proj.path)
            /\ Settle(Resolved(0))
       ELSE /\ disk' = RetrieveRollback(disk, proj.path)
            /\ Settle(Rejected(ErrStoreWrite))
            /\ UNCHANGED wsExists
  /\ UNCHANGED << tmp, env, proj, op, inner, cfg, tasks, retr, pre, trace, nOps, nextId >>
  /\ UNCHANGED << args, co, handler >>

(* ---------------------------------------------------------------------- *)
(* retrieveAndWriteToDisk (project.js 392-445) of a second instance made   *)
(* with the same workspace and name, called while the call of the first    *)
(* is in flight.  Its position is kept in co.  The writers of its          *)
(* _initConfig and its _writeLocalStore are taken as one step.             *)
(* ---------------------------------------------------------------------- *)
\* self.path of the second instance
TwinPath == Join(proj.workspace, proj.name)

\* the promise of the second instance's call settles
ot_settle(state, err) == co' = [co EXCEPT !.pc = "done", !.state = state, !.err = err]

\* the executor: it rejects at once when the path exists, else it asks the
\* server for the describe
ot_retrieveAndWriteToDisk ==
  /\ env.kind = "twin"
  /\ proj.initialized
  /\ co.pc = "none"
  /\ \/ pc = "idle" /\ result.op.name = "initialize"
     \/ pc \in {"rw_describe", "rw_retrieve"}
  /\ IF ExistsSync(disk, TwinPath)
     THEN ot_settle("rejected", ErrPathTaken)
     ELSE co' = [co EXCEPT !.pc = "ot_describe"]
  /\ UNCHANGED << disk, wsExists, tmp, env, proj, pc, op, inner, cfg, tasks, retr,
                  result, pre, trace, nOps, nextId, args, handler >>

\* describe() answers: fs.mkdirSync(path), fs.mkdirSync(path/config), and
\* the retrieve is sent; whatever fails goes to the catch, which removes
\* what is at the path
ot_describe ==
  /\ co.pc = "ot_describe"
  /\ \/ \E e \in CollabErrs :
          /\ disk' = RetrieveRollback(disk, TwinPath)
          /\ ot_settle("rejected", e)
     \/ IF ExistsSync(disk, TwinPath)
        THEN \* fs.mkdirSync threw EEXIST
             /\ disk' = RetrieveRollback(disk, TwinPath)
             /\ ot_settle("rejected", ErrIO)
        ELSE /\ disk' = [disk EXCEPT ![TwinPath] = [EmptyDir EXCEPT !.config = TRUE]]
             /\ co' = [co EXCEPT !.pc = "ot_retrieve"]
  /\ UNCHANGED << wsExists, tmp, env, proj, pc, op, inner, cfg, tasks, retr,
                  result, pre, trace, nOps, nextId, args, handler >>

\* retrieveUnpackaged answers: unpackaged becomes src, _initConfig starts
ot_retrieve ==
  /\ co.pc = "ot_retrieve"
  /\ \/ \E e \in CollabErrs :
          /\ disk' = RetrieveRollback(disk, TwinPath)
          /\ ot_settle("rejected", e)
     \/ \E members \in RetrieveAnswers :
          /\ disk' = RenameUnpackagedToSrc(Unpackaged(disk, TwinPath, members), TwinPath)
          /\ co' = [co EXCEPT !.pc = "ot_config",
                              !.entries = LocalStoreFrom(FileProperties(members))]
  /\ UNCHANGED << wsExists, tmp, env, proj, pc, op, inner, cfg, tasks, retr,
                  result, pre, trace, nOps, nextId, args, handler >>

\* _initConfig and _writeLocalStore have settled: the call resolves, or the
\* catch removes what is at the path
ot_config ==
  /\ co.pc = "ot_config"
  /\ \/ /\ disk' = RetrieveRollback(disk, TwinPath)
        /\ ot_settle("rejected", ErrIO)
     \/ /\ disk' = OutputLocalStore(
                      OutputConfigFile(disk, TwinPath, ".settings",
                                       Stringify(WrittenSettings(proj, env))),
                      TwinPath, co.entries)
        /\ ot_settle("resolved", NoErr)
  /\ UNCHANGED << wsExists, tmp, env, proj, pc, op, inner, cfg, tasks, retr,
                  result, pre, trace, nOps, nextId, args, handler >>

(* ---------------------------------------------------------------------- *)
(* _initNewProjectFromExistingDirectory (project.js 117-184)               *)
(* ---------------------------------------------------------------------- *)
\* a rollback that forgets the comparison with the origin
FromDirRollbackAlways(dk, p) ==
  LET dest == Join(p.workspace, p.name)
  IN  IF ExistsSync(dk, dest) THEN [dk EXCEPT ![dest] = NoDir] ELSE dk

\* the .catch of the chain: a destination that is not the origin is removed
FromDirRollback(dk, p) ==
  LET dest == Join(p.workspace, p.name)
  IN  IF p.origin # dest /\ ExistsSync(dk, dest)
      THEN [dk EXCEPT ![dest] = NoDir]
      ELSE dk

\* the error the checks at the top of the executor end with, NoErr if none
FromDirValidation(p, dk) ==
  IF Falsy(p.workspace) THEN ErrSelectWs
  ELSE IF ~(ExistsSync(dk, p.origin) /\ dk[p.origin].hasSrc) THEN ErrNoSrc
  ELSE IF dk[p.origin].src[Manifest] = ABSENT THEN ErrNoPkg
  ELSE IF p.origin # Join(p.workspace, p.name)
          /\ ExistsSync(dk, Join(p.workspace, p.name)) THEN ErrNameTaken
  ELSE NoErr

\* fs.copySync(origin, dest) that threw part-way: dest holds the manifest only
PartialCopy(d) ==
  [EmptyDir EXCEPT !.hasSrc = TRUE, !.src = [NoTree EXCEPT ![Manifest] = d.src[Manifest]]]

\* the chain rejected: rollback, and the workflow's promise is rejected
FromDirCatch(e) ==
  /\ disk' = FromDirRollback(disk, proj)
  /\ inner' = Rejected(e)
  /\ pc' = "initialize"

\* initialize(true, true): the executor runs up to the describe() call
initialize_fromDirectory ==
  /\ env.kind = "dir"
  /\ ~proj.initialized
  /\ BeginCall([name |-> "initialize", isNewProject |-> TRUE, isExistingDirectory |-> TRUE])
  /\ result' = NoResult
  /\ LET e    == FromDirValidation(proj, disk)
         dest == Join(proj.workspace, proj.name)
     IN  IF e # NoErr
         THEN /\ inner' = Rejected(e)
              /\ pc' = "initialize"
              /\ UNCHANGED << disk, wsExists, proj >>
         ELSE \E copy \in {"threw", "partial", "done"}, config \in BOOLEAN :
                LET copied == IF proj.origin = dest \/ copy = "threw" THEN disk
                              ELSE IF copy = "partial"
                              THEN [disk EXCEPT ![dest] = PartialCopy(disk[proj.origin])]
                              ELSE [disk EXCEPT ![dest] = disk[proj.origin]]
                    copyOk == proj.origin = dest \/ copy = "done"
                IN  /\ wsExists' = (wsExists \/ (proj.origin # dest /\ copy # "threw"))
                    /\ IF ~copyOk
                       THEN \* fs.ensureDirSync or fs.copySync threw in the executor
                            /\ disk' = copied
                            /\ inner' = Rejected(ErrIO)
                            /\ pc' = "initialize"
                            /\ UNCHANGED proj
                       ELSE IF ~config
                       THEN \* fs.ensureDirSync(path/config) threw in the executor
                            /\ disk' = copied
                            /\ proj' = [proj EXCEPT !.path = dest]
                            /\ inner' = Rejected(ErrIO)
                            /\ pc' = "initialize"
                       ELSE /\ disk' = [copied EXCEPT ![dest].config = TRUE]
                            /\ proj' = [proj EXCEPT !.path = dest]
                            /\ inner' = Pending
                            /\ pc' = "fd_describe"
  /\ UNCHANGED << tmp, env, trace, nextId >>

\* describe() answers; setDescribe starts writing config/.describe
fd_describe ==
  /\ pc = "fd_describe"
  /\ \/ \E e \in CollabErrs : FromDirCatch(e)
     \/ /\ pc' = "fd_setDescribe"
        /\ UNCHANGED << disk, inner >>
  /\ UNCHANGED << wsExists, tmp, env, proj, op, cfg, tasks, retr, result, pre,
                  trace, nOps, nextId >>
  /\ UNCHANGED << args, co, handler >>

\* setDescribe: fs.outputFile completes; the package descriptor is read
fd_setDescribe ==
  /\ pc = "fd_setDescribe"
  /\ \/ /\ FromDirCatch(ErrIO)
        /\ UNCHANGED proj
     \/ /\ disk' = OutputConfigFile(disk, proj.path, ".describe", "describe1")
        /\ proj' = [proj EXCEPT !.describe = "describe1"]
        /\ pc' = "fd_pkg"
        /\ UNCHANGED inner
  /\ UNCHANGED << wsExists, tmp, env, op, cfg, tasks, retr, result, pre, trace,
                  nOps, nextId >>
  /\ UNCHANGED << args, co, handler >>

\* pkg.init() settles; the retrieve is sent
fd_pkg ==
  /\ pc = "fd_pkg"
  /\ \/ \E e \in CollabErrs : FromDirCatch(e)
     \/ /\ pc' = "fd_retrieve"
        /\ UNCHANGED << disk, inner >>
  /\ UNCHANGED << wsExists, tmp, env, proj, op, cfg, tasks, retr, result, pre,
                  trace, nOps, nextId >>
  /\ UNCHANGED << args, co, handler >>

\* retrieveUnpackaged answers: its unpackaged folder is dropped, the id is
\* drawn and _initConfig starts
fd_retrieve ==
  /\ pc = "fd_retrieve"
  /\ \/ /\ \E e \in CollabErrs : FromDirCatch(e)
        /\ UNCHANGED << proj, retr, cfg, tasks, nextId >>
     \/ \E members \in RetrieveAnswers, removed \in BOOLEAN :
          /\ retr' = [members |-> members, fileProperties |-> FileProperties(members)]
          /\ IF removed
             THEN /\ disk' = disk
                  /\ proj' = [proj EXCEPT !.id = nextId]
                  /\ nextId' = nextId + 1
                  /\ cfg' = CfgRunning
                  /\ tasks' = InitConfigStarted
                  /\ pc' = "fd_config"
                  /\ UNCHANGED inner
             ELSE \* fs.removeSync(path/unpackaged) threw
                  /\ disk' = FromDirRollback(Unpackaged(disk, proj.path, members), proj)
                  /\ inner' = Rejected(ErrIO)
                  /\ pc' = "initialize"
                  /\ UNCHANGED << proj, cfg, tasks, nextId >>
  /\ UNCHANGED << wsExists, tmp, env, op, result, pre, trace, nOps >>
  /\ UNCHANGED << args, co, handler >>

\* _initConfig settled
fd_config ==
  /\ pc = "fd_config"
  /\ cfg.promise.state # "pending"
  /\ IF cfg.promise.state = "resolved"
     THEN /\ pc' = "fd_store"
          /\ UNCHANGED << disk, inner >>
     ELSE FromDirCatch(cfg.promise.err)
  /\ UNCHANGED << wsExists, tmp, env, proj, op, cfg, tasks, retr, result, pre,
                  trace, nOps, nextId >>
  /\ UNCHANGED << args, co, handler >>

\* _writeLocalStore: fs.outputFile of config/.local_store completes
fd_store ==
  /\ pc = "fd_store"
  /\ \/ /\ FromDirCatch(ErrStoreWrite)
        /\ UNCHANGED wsExists
     \/ /\ disk' = OutputLocalStore(disk, proj.path, LocalStoreFrom(retr.fileProperties))
        /\ wsExists' = WorkspaceAfterWrite(wsExists, proj.path)
        /\ inner' = Resolved(0)
        /\ pc' = "initialize"
  /\ UNCHANGED << tmp, env, proj, op, cfg, tasks, retr, result, pre, trace, nOps, nextId >>
  /\ UNCHANGED << args, co, handler >>

(* ---------------------------------------------------------------------- *)
(* _isValid (project.js 377-385) and _initExisting (project.js 190-289)    *)
(* ---------------------------------------------------------------------- *)
\* fs.existsSync(path.join(p, 'config', '.settings'))
MarkerExists(dk, p) ==
  ExistsSync(dk, p) /\ dk[p].config /\ dk[p].cfg[".settings"] # ABSENT

\* _isValid: "true", "false", or "TypeError" when path.join is handed the
\* prototype's null
_isValid(p, dk) ==
  IF p.path # UNDEF
  THEN IF ~IsString(p.path) THEN "TypeError"
       ELSE IF MarkerExists(dk, p.path) THEN "true" ELSE "false"
  ELSE IF p.workspace # UNDEF /\ p.name # UNDEF
  THEN IF ~IsString(p.workspace) THEN "TypeError"
       ELSE IF MarkerExists(dk, Join(p.workspace, p.name)) THEN "true" ELSE "false"
  ELSE IF MarkerExists(dk, CwdDir) THEN "true" ELSE "false"

\* path, workspace and name as _initExisting sets them once _isValid held
DeriveLocation(p) ==
  IF p.path # UNDEF
  THEN [p EXCEPT !.workspace = Dirname(p.path), !.name = Basename(p.path)]
  ELSE IF p.workspace # UNDEF /\ p.name # UNDEF
  THEN [p EXCEPT !.path = Join(p.workspace, p.name)]
  ELSE [p EXCEPT !.path = CwdDir, !.workspace = Dirname(CwdDir), !.name = Basename(CwdDir)]

\* a test that knows the invalid-login signature only
IsAuthErrorLoginOnly(e) == Contains(e, "INVALID_LOGIN")

\* error.message.indexOf(..) >= 0 for one of the three login signatures
IsAuthError(e) ==
  \/ Contains(e, "INVALID_LOGIN")
  \/ Contains(e, "EXPIRED_PASSWORD")
  \/ Contains(e, "LOGIN_MUST_USE_SECURITY_TOKEN")

\* the project after the .catch of _initExisting
ExistingCatch(p, e) == IF IsAuthError(e) THEN [p EXCEPT !.valid = "false"] ELSE p

\* who waits for the promise of _initExisting: initialize, or updateCreds
AfterInitExisting == IF op.name = "updateCreds" THEN "uc_initExisting" ELSE "initialize"

\* the .catch of the chain runs and the workflow's promise is rejected
ie_reject(e) ==
  /\ proj' = ExistingCatch(proj, e)
  /\ inner' = Rejected(e)
  /\ pc' = AfterInitExisting
  /\ UNCHANGED trace

\* a chain that persists the session before it connects
ChainAfterSessionFirst(label) ==
  CASE label = "ie_pkg"          -> [pc |-> "ie_settings",     step |-> "_getSettings"]
    [] label = "ie_settings"     -> [pc |-> "ie_session",      step |-> "_getCachedSession"]
    [] label = "ie_session"      -> [pc |-> "ie_writeSession", step |-> "_writeSession"]
    [] label = "ie_writeSession" -> [pc |-> "ie_connect",      step |-> "sfdcClient.initialize"]
    [] label = "ie_connect"      -> [pc |-> "ie_index",        step |-> "getOrgMetadataIndexWithSelections"]
    [] label = "ie_index"        -> [pc |-> "ie_describe",     step |-> "_refreshDescribeFromServer"]
    [] label = "ie_describe"     -> [pc |-> "ie_listen",       step |-> "startSystemStreamingListener"]
    [] OTHER                     -> [pc |-> "ie_resolve",      step |-> "resolve"]

\* the .then chain of _initExisting: the step each callback starts
ChainAfter(label) ==
  CASE label = "ie_pkg"          -> [pc |-> "ie_settings",     step |-> "_getSettings"]
    [] label = "ie_settings"     -> [pc |-> "ie_session",      step |-> "_getCachedSession"]
    [] label = "ie_session"      -> [pc |-> "ie_connect",      step |-> "sfdcClient.initialize"]
    [] label = "ie_connect"      -> [pc |-> "ie_writeSession", step |-> "_writeSession"]
    [] label = "ie_writeSession" -> [pc |-> "ie_index",        step |-> "getOrgMetadataIndexWithSelections"]
    [] label = "ie_index"        -> [pc |-> "ie_describe",     step |-> "_refreshDescribeFromServer"]
    [] label = "ie_describe"     -> [pc |-> "ie_listen",       step |-> "startSystemStreamingListener"]
    [] OTHER                     -> [pc |-> "ie_resolve",      step |-> "resolve"]

\* the step at label succeeded: its .then callback starts the next one, the
\* last one sets valid and resolves
ie_then(label) ==
  LET next == ChainAfter(label)
  IN  IF next.pc = "ie_resolve"
      THEN /\ inner' = Resolved(0)
           /\ pc' = AfterInitExisting
           /\ UNCHANGED trace
      ELSE /\ trace' = Append(trace, next.step)
           /\ pc' = next.pc
           /\ UNCHANGED inner

\* initialize(false): the executor of _initExisting up to packageXml.init()
initialize_initExisting ==
  /\ env.kind \in {"existing"} \cup OpenedKinds
  /\ env.kind \in OpenedKinds => ~proj.initialized
  /\ BeginCall([name |-> "initialize", isNewProject |-> FALSE, isExistingDirectory |-> FALSE])
  /\ result' = NoResult
  /\ LET v  == _isValid(proj, disk)
         p1 == DeriveLocation(proj)
     IN  IF v = "TypeError"
         THEN /\ inner' = Rejected(ErrJoinType)
              /\ pc' = "initialize"
              /\ trace' = << >>
              /\ UNCHANGED proj
         ELSE IF v = "false"
         THEN /\ inner' = Rejected(ErrNotProject)
              /\ pc' = "initialize"
              /\ trace' = << >>
              /\ UNCHANGED proj
         ELSE IF ~ExistsSync(disk, p1.path)
         THEN /\ inner' = Rejected(ErrNotProject)
              /\ pc' = "initialize"
              /\ trace' = << >>
              /\ proj' = p1
         ELSE /\ proj' = [p1 EXCEPT !.packageXml = "package1"]
              /\ inner' = Pending
              /\ pc' = "ie_pkg"
              /\ trace' = << "packageXml.init" >>
  /\ UNCHANGED << disk, wsExists, tmp, env, nextId >>

\* packageXml.init() settles; _getSettings starts reading config/.settings
ie_pkg ==
  /\ pc = "ie_pkg"
  /\ \/ /\ ie_reject(ErrIO)
     \/ /\ ie_then(pc)
        /\ UNCHANGED proj
  /\ UNCHANGED << disk, wsExists, tmp, env, op, cfg, tasks, retr, result, pre,
                  nOps, nextId >>
  /\ UNCHANGED << args, co, handler >>

\* _getSettings (project.js 745-766): the settings are read and the password
\* comes from _getPassword; then _getCachedSession starts
ie_settings ==
  /\ pc = "ie_settings"
  /\ \E readOk, lookupOk \in BOOLEAN :
       LET text == disk[proj.path].cfg[".settings"]
       IN  IF text = ABSENT \/ ~readOk
           THEN \* fs.readJson failed
                ie_reject(ErrIO)
           ELSE LET settings == ParseSettings(text)
                    got      == GetPassword(settings, env, lookupOk)
                IN  IF got.err = NoErr
                    THEN /\ proj' = [proj EXCEPT !.settings =
                                      Stringify([settings EXCEPT !.password = got.pw])]
                         /\ ie_then(pc)
                    ELSE /\ proj' = ExistingCatch([proj EXCEPT !.settings = text], got.err)
                         /\ inner' = Rejected(got.err)
                         /\ pc' = AfterInitExisting
                         /\ UNCHANGED trace
  /\ UNCHANGED << disk, wsExists, tmp, env, op, cfg, tasks, retr, result, pre,
                  nOps, nextId >>
  /\ UNCHANGED << args, co, handler >>

\* _getCachedSession (project.js 625-645) settles; the client is made when
\* the project has none, and sfdcClient.initialize() starts
ie_session ==
  /\ pc = "ie_session"
  /\ \/ \E read \in {"json", "empty"} :
          LET session == disk[proj.path].cfg[".session"]
              cached  == IF session = ABSENT \/ read = "empty" THEN proj.cachedSession ELSE session
              fresh   == proj.sfdcClient = "none"
          IN  /\ proj' = [proj EXCEPT
                            !.cachedSession = cached,
                            !.sfdcClient = IF fresh THEN "created" ELSE @,
                            !.cacheRefreshListeners = IF fresh THEN @ + 1 ELSE @]
              /\ ie_then(pc)
     \/ /\ disk[proj.path].cfg[".session"] # ABSENT
        /\ ie_reject(ErrIO)
  /\ UNCHANGED << disk, wsExists, tmp, env, op, cfg, tasks, retr, result, pre,
                  nOps, nextId >>
  /\ UNCHANGED << args, co, handler >>

\* sfdcClient.initialize() settles; _writeSession starts
ie_connect ==
  /\ pc = "ie_connect"
  /\ \/ \E e \in LoginErrs : ie_reject(e)
     \/ /\ proj' = [proj EXCEPT !.sfdcClient = "ready", !.accessToken = "tok1"]
        /\ ie_then(pc)
  /\ UNCHANGED << disk, wsExists, tmp, env, op, cfg, tasks, retr, result, pre,
                  nOps, nextId >>
  /\ UNCHANGED << args, co, handler >>

\* _writeSession (project.js 1207-1228): fs.outputFile of config/.session
\* completes; getLocalStore reads config/.local_store and
\* getOrgMetadataIndexWithSelections starts
ie_writeSession ==
  /\ pc = "ie_writeSession"
  /\ \/ /\ ie_reject(ErrIO)
        /\ UNCHANGED disk
     \/ LET written == OutputConfigFile(disk, proj.path, ".session", proj.accessToken)
        IN  /\ disk' = written
            /\ IF written[proj.path].store.present
               THEN /\ ie_then(pc)
                    /\ UNCHANGED proj
               ELSE \* fs.readJsonSync threw in getLocalStore
                    ie_reject(ErrIO)
  /\ UNCHANGED << wsExists, tmp, env, op, cfg, tasks, retr, result, pre, nOps, nextId >>
  /\ UNCHANGED << args, co, handler >>

\* getOrgMetadataIndexWithSelections (project.js 985-1079) settles;
\* _refreshDescribeFromServer asks the server for the describe
ie_index ==
  /\ pc = "ie_index"
  /\ \/ /\ disk[proj.path].cfg[".org_metadata"] # ABSENT
        /\ ie_reject(ErrIO)
     \/ /\ proj' = [proj EXCEPT !.orgMetadata =
                      IF disk[proj.path].cfg[".org_metadata"] # ABSENT
                      THEN disk[proj.path].cfg[".org_metadata"] ELSE @]
        /\ ie_then(pc)
  /\ UNCHANGED << disk, wsExists, tmp, env, op, cfg, tasks, retr, result, pre,
                  nOps, nextId >>
  /\ UNCHANGED << args, co, handler >>

\* describe() answers and setDescribe writes config/.describe; the log
\* service is made, the new-log listener added and
\* startSystemStreamingListener starts
ie_describe ==
  /\ pc = "ie_describe"
  /\ \/ /\ \E e \in {ErrNet, ErrInvalidLogin, ErrIO} : ie_reject(e)
        /\ UNCHANGED disk
     \/ /\ disk' = IF disk[proj.path].config
                   THEN OutputConfigFile(disk, proj.path, ".describe", "describe1")
                   ELSE disk
        /\ proj' = [proj EXCEPT !.describe = "describe1", !.logService = "log1",
                                !.newLogListeners = @ + 1]
        /\ ie_then(pc)
  /\ UNCHANGED << wsExists, tmp, env, op, cfg, tasks, retr, result, pre, nOps, nextId >>
  /\ UNCHANGED << args, co, handler >>

\* startSystemStreamingListener settles: valid is set and the workflow resolves
ie_listen ==
  /\ pc = "ie_listen"
  /\ \/ \E e \in {ErrNet, ErrExpiredPw} : ie_reject(e)
     \/ /\ proj' = [proj EXCEPT !.valid = IF ChainAfter(pc).pc = "ie_resolve" THEN "true" ELSE @]
        /\ ie_then(pc)
  /\ UNCHANGED << disk, wsExists, tmp, env, op, cfg, tasks, retr, result, pre,
                  nOps, nextId >>
  /\ UNCHANGED << args, co, handler >>

(* ---------------------------------------------------------------------- *)
(* updateSetting (project.js 657-684) called by the user of the project    *)
(* ---------------------------------------------------------------------- *)
\* the settings a caller changes
SettingChanges ==
  { << "username", "u1" >>, << "loginUrl", "l1" >>, << "password", "pw1" >>,
    << "password", UNDEF >> }

updateSetting ==
  /\ env.kind = "keyring"
  /\ proj.initialized
  /\ \E kv \in SettingChanges, readOk, writeOk \in BOOLEAN :
       LET out == UpdateSetting(disk, proj, kv[1], kv[2], readOk, writeOk)
       IN  /\ BeginCallWith(Method("updateSetting"),
                            [NoArgs EXCEPT !.key = kv[1], !.value = kv[2]])
           /\ disk' = out.disk
           /\ proj' = out.proj
           /\ SettleCall(op', out.promise)
  /\ UNCHANGED << wsExists, tmp, env, inner, trace, nextId >>

(* ---------------------------------------------------------------------- *)
(* updateCreds (project.js 686-742)                                        *)
(* ---------------------------------------------------------------------- *)
\* the credentials the caller hands over
NewCreds == [username |-> "u1", password |-> "pw1", orgType |-> "e1", loginUrl |-> "l1"]

\* the catch of updateCreds
uc_reject(e) == Settle(Rejected(e))

\* the executor: a client is made with the credentials and takes the place
\* of the project's; its initialize() starts
updateCreds ==
  /\ env.kind = "keyring"
  /\ result.op.name \in {"initialize", "updateSetting"}
  /\ BeginCall(Method("updateCreds"))
  /\ proj' = [proj EXCEPT !.sfdcClient = "created", !.clientNo = @ + 1,
                          !.accessToken = UNDEF,
                          !.cacheRefreshListeners = 0, !.newLogListeners = 0]
  /\ Suspend("uc_connect")
  /\ UNCHANGED << disk, wsExists, tmp, env, inner, trace, nextId >>

\* sfdcClient.initialize() settles; _storePassword(creds.password, true)
\* runs in the callback
uc_connect ==
  /\ pc = "uc_connect"
  /\ \/ /\ \E e \in LoginErrs : uc_reject(e)
        /\ UNCHANGED << disk, proj, env >>
     \/ \E keychainOk, readOk, writeOk \in BOOLEAN :
          LET p1  == [proj EXCEPT !.sfdcClient = "ready", !.accessToken = "tok3"]
              out == StorePassword(disk, p1, env, NewCreds.password, TRUE,
                                   keychainOk, readOk, writeOk)
          IN  /\ disk' = out.disk
              /\ proj' = out.proj
              /\ env' = out.env
              /\ IF out.promise.state = "resolved"
                 THEN pc' = "uc_username" /\ UNCHANGED result
                 ELSE uc_reject(out.promise.err)
  /\ UNCHANGED << wsExists, tmp, op, inner, cfg, tasks, retr, pre, trace, nOps,
                  nextId, args, co, handler >>

\* a callback that calls updateSetting(key, value), and the label of the
\* callback after it
uc_updateSetting(key, value, next) ==
  /\ \E readOk, writeOk \in BOOLEAN :
       LET out == UpdateSetting(disk, proj, key, value, readOk, writeOk)
       IN  /\ disk' = out.disk
           /\ proj' = out.proj
           /\ IF out.promise.state = "resolved"
              THEN pc' = next /\ UNCHANGED result
              ELSE uc_reject(out.promise.err)
  /\ UNCHANGED << wsExists, tmp, env, op, inner, cfg, tasks, retr, pre, trace, nOps,
                  nextId, args, co, handler >>

uc_username ==
  /\ pc = "uc_username"
  /\ uc_updateSetting("username", NewCreds.username, "uc_environment")

uc_environment ==
  /\ pc = "uc_environment"
  /\ uc_updateSetting("environment", NewCreds.orgType, "uc_loginUrl")

uc_loginUrl ==
  /\ pc = "uc_loginUrl"
  /\ uc_updateSetting("loginUrl", NewCreds.loginUrl, "uc_debug")

\* updateDebug('users', ..) (project.js 1264-1289) reads and writes
\* config/.debug; then _initExisting is called when the project is not
\* valid, and its executor runs; else the cache-refresh listener is added
\* and _writeSession starts
uc_debug ==
  /\ pc = "uc_debug"
  /\ \E writeOk \in BOOLEAN :
       IF disk[proj.path].cfg[".debug"] = ABSENT
       THEN uc_reject(ErrDebugRead) /\ UNCHANGED << disk, proj, inner, trace >>
       ELSE IF ~writeOk
       THEN uc_reject(ErrIO) /\ UNCHANGED << disk, proj, inner, trace >>
       ELSE /\ disk' = [disk EXCEPT ![proj.path].cfg[".debug"] = "debug2"]
            /\ IF proj.valid = "true"
               THEN /\ proj' = [proj EXCEPT !.cacheRefreshListeners = @ + 1]
                    /\ pc' = "uc_writeSession"
                    /\ UNCHANGED << inner, trace, result >>
               ELSE LET v  == _isValid(proj, disk')
                        p1 == DeriveLocation(proj)
                    IN  IF v # "true"
                        THEN /\ uc_reject(IF v = "TypeError" THEN ErrJoinType ELSE ErrNotProject)
                             /\ UNCHANGED << proj, inner, trace >>
                        ELSE IF ~ExistsSync(disk', p1.path)
                        THEN /\ uc_reject(ErrNotProject)
                             /\ proj' = p1
                             /\ UNCHANGED << inner, trace >>
                        ELSE /\ proj' = [p1 EXCEPT !.packageXml = "package1"]
                             /\ inner' = Pending
                             /\ pc' = "ie_pkg"
                             /\ trace' = << "packageXml.init" >>
                             /\ UNCHANGED result
  /\ UNCHANGED << wsExists, tmp, env, op, cfg, tasks, retr, pre, nOps,
                  nextId, args, co, handler >>

\* the promise of _initExisting has settled: the cache-refresh listener is
\* added and _writeSession starts, or updateCreds rejects
uc_initExisting ==
  /\ pc = "uc_initExisting"
  /\ IF inner.state = "resolved"
     THEN /\ proj' = [proj EXCEPT !.cacheRefreshListeners = @ + 1]
          /\ pc' = "uc_writeSession"
          /\ UNCHANGED result
     ELSE /\ uc_reject(inner.err)
          /\ UNCHANGED proj
  /\ UNCHANGED << disk, wsExists, tmp, env, op, inner, cfg, tasks, retr, pre, trace,
                  nOps, nextId, args, co, handler >>

\* fs.outputFile of _writeSession completes; _getCachedSession starts
uc_writeSession ==
  /\ pc = "uc_writeSession"
  /\ \/ /\ uc_reject(ErrIO)
        /\ UNCHANGED disk
     \/ /\ disk' = OutputConfigFile(disk, proj.path, ".session", proj.accessToken)
        /\ pc' = "uc_session"
        /\ UNCHANGED result
  /\ UNCHANGED << wsExists, tmp, env, proj, op, inner, cfg, tasks, retr, pre, trace,
                  nOps, nextId, args, co, handler >>

\* _getCachedSession settles and updateCreds resolves
uc_session ==
  /\ pc = "uc_session"
  /\ \/ /\ proj' = [proj EXCEPT !.cachedSession = disk[proj.path].cfg[".session"]]
        /\ Settle(Resolved(0))
     \/ /\ uc_reject(ErrIO)
        /\ UNCHANGED proj
  /\ UNCHANGED << disk, wsExists, tmp, env, op, inner, cfg, tasks, retr, pre, trace,
                  nOps, nextId, args, co, handler >>

(* ---------------------------------------------------------------------- *)
(* refreshFromServer (project.js 484-517), replaceLocalFiles (329-375)     *)
(* ---------------------------------------------------------------------- *)
\* the directory temp.mkdirSync({ prefix: 'mm_' }) makes
TempDir == [exists |-> TRUE, hasUnpackaged |-> FALSE, unpackaged |-> NoTree,
            zip |-> FALSE]

\* util.emptyDirectoryRecursiveSync(<path>/src): the files under the source
\* root are removed
emptyDirectoryRecursiveSync(dk, path) ==
  [dk EXCEPT ![path] = [@ EXCEPT !.src = NoTree]]

\* a handler that never replaces the manifest
ReplaceFileKeepManifest(tree, remote, f, replacePackageXml) ==
  IF f # Manifest THEN [tree EXCEPT ![f] = remote[f]] ELSE tree

\* the 'file' handler of replaceLocalFiles for the file f of the remote tree
ReplaceFile(tree, remote, f, replacePackageXml) ==
  IF (replacePackageXml /\ f = Manifest) \/ f # Manifest
  THEN [tree EXCEPT ![f] = remote[f]]
  ELSE tree

\* the handler ran for the files fs of the remote tree
RECURSIVE ReplaceFiles(_, _, _, _)
ReplaceFiles(tree, remote, fs, replacePackageXml) ==
  IF fs = << >> THEN tree
  ELSE ReplaceFiles(ReplaceFile(tree, remote, Head(fs), replacePackageXml),
                    remote, Tail(fs), replacePackageXml)

\* the files the finder of replaceLocalFiles reports, in its order
Found(remote) == SelectSeq(FileOrder, LAMBDA f : remote[f] # ABSENT)

\* the source root of workspace/name after the walk over the remote tree
replaceLocalFiles(dk, p, remote, replacePackageXml) ==
  LET dest == Join(p.workspace, p.name)
  IN  [dk EXCEPT ![dest] = [@ EXCEPT !.hasSrc = TRUE,
                              !.src = ReplaceFiles(@, remote, Found(remote), replacePackageXml)]]

\* the source root when the finder reported an error after its handler
\* had run for the first k files
replaceLocalFilesUpTo(dk, p, remote, replacePackageXml, k) ==
  LET dest == Join(p.workspace, p.name)
  IN  IF k = 0 THEN dk
      ELSE [dk EXCEPT ![dest] = [@ EXCEPT !.hasSrc = TRUE,
                                  !.src = ReplaceFiles(@, remote, SubSeq(Found(remote), 1, k),
                                                       replacePackageXml)]]

\* the version of the metadata the server holds: what it held when the
\* project was opened, or what a compile made alongside has deployed
ServerVersion == IF co.deployed THEN "deployed" ELSE "server"

\* the catch of refreshFromServer
rf_reject(e) ==
  /\ Settle(Rejected(e))

\* the executor: the staging directory is made and packageXml.init() starts
refreshFromServer ==
  /\ env.kind \in {"opened", "session", "race"}
  /\ env.kind = "race" => result.op.name = "initialize"
  /\ proj.initialized
  /\ BeginCall([name |-> "refreshFromServer", isNewProject |-> FALSE,
                isExistingDirectory |-> FALSE])
  /\ \/ \* temp.mkdirSync threw
        /\ SettleCall(op', Rejected(ErrIO))
        /\ UNCHANGED << tmp, proj >>
     \/ /\ tmp' = Append(tmp, TempDir)
        /\ proj' = [proj EXCEPT !.packageXml = "package1"]
        /\ Suspend("rf_pkg")
  /\ UNCHANGED << disk, wsExists, env, inner, trace, nextId >>

\* packageXml.init() settles; the retrieve into the staging directory is sent
rf_pkg ==
  /\ pc = "rf_pkg"
  /\ \/ rf_reject(ErrIO)
     \/ /\ pc' = "rf_retrieve"
        /\ UNCHANGED result
  /\ UNCHANGED << disk, wsExists, tmp, env, proj, op, inner, cfg, tasks, retr,
                  pre, trace, nOps, nextId >>
  /\ UNCHANGED << args, co, handler >>

\* a refresh that empties the source root before the retrieve has answered
rf_retrieveEmptyingFirst ==
  /\ pc = "rf_retrieve"
  /\ \/ /\ \E e \in CollabErrs : rf_reject(e)
        /\ disk' = emptyDirectoryRecursiveSync(disk, proj.path)
        /\ UNCHANGED << tmp, retr >>
     \/ \E members \in RetrieveAnswers :
          /\ tmp' = [tmp EXCEPT ![Len(tmp)] =
                       [@ EXCEPT !.hasUnpackaged = TRUE,
                                 !.unpackaged = StagedTreeOf(members, ServerVersion)]]
          /\ retr' = [members |-> members, fileProperties |-> FileProperties(members)]
          /\ disk' = emptyDirectoryRecursiveSync(disk, proj.path)
          /\ pc' = "rf_replace"
          /\ UNCHANGED result
  /\ UNCHANGED << wsExists, env, proj, op, inner, cfg, tasks, pre, trace, nOps, nextId >>
  /\ UNCHANGED << args, co, handler >>

\* retrieveUnpackaged answers: the source root is emptied and the walk of
\* replaceLocalFiles over <staging>/unpackaged starts
rf_retrieve ==
  /\ pc = "rf_retrieve"
  /\ \/ /\ \E e \in CollabErrs : rf_reject(e)
        /\ UNCHANGED << disk, tmp, retr >>
     \/ \E members \in RetrieveAnswers, emptied \in BOOLEAN :
          /\ tmp' = [tmp EXCEPT ![Len(tmp)] =
                       [@ EXCEPT !.hasUnpackaged = TRUE,
                                 !.unpackaged = StagedTreeOf(members, ServerVersion)]]
          /\ retr' = [members |-> members, fileProperties |-> FileProperties(members)]
          /\ IF emptied
             THEN /\ disk' = emptyDirectoryRecursiveSync(disk, proj.path)
                  /\ pc' = "rf_replace"
                  /\ UNCHANGED result
             ELSE \* util.emptyDirectoryRecursiveSync threw
                  /\ rf_reject(ErrIO)
                  /\ UNCHANGED disk
  /\ UNCHANGED << wsExists, env, proj, op, inner, cfg, tasks, pre, trace, nOps, nextId >>
  /\ UNCHANGED << args, co, handler >>

\* a replacement that puts the earlier source root back when it fails
rf_replaceRestoring ==
  /\ pc = "rf_replace"
  /\ \/ /\ rf_reject(ErrIO)
        /\ disk' = pre.fs.disk
     \/ /\ disk' = replaceLocalFiles(disk, proj, tmp[Len(tmp)].unpackaged, TRUE)
        /\ pc' = "rf_remove"
        /\ UNCHANGED result
  /\ UNCHANGED << wsExists, tmp, env, proj, op, inner, cfg, tasks, retr, pre,
                  trace, nOps, nextId >>
  /\ UNCHANGED << args, co, handler >>

\* the finder of replaceLocalFiles ends, or reports an error
rf_replace ==
  /\ pc = "rf_replace"
  /\ \/ /\ rf_reject(ErrIO)
        /\ \E k \in 0..Len(Found(tmp[Len(tmp)].unpackaged)) :
             disk' = replaceLocalFilesUpTo(disk, proj, tmp[Len(tmp)].unpackaged, TRUE, k)
     \/ /\ disk' = replaceLocalFiles(disk, proj, tmp[Len(tmp)].unpackaged, TRUE)
        /\ pc' = "rf_remove"
        /\ UNCHANGED result
  /\ UNCHANGED << wsExists, tmp, env, proj, op, inner, cfg, tasks, retr, pre,
                  trace, nOps, nextId >>
  /\ UNCHANGED << args, co, handler >>

\* fs.removeAsync(<staging>/unpackaged) settles; _writeLocalStore starts
rf_remove ==
  /\ pc = "rf_remove"
  /\ \/ /\ rf_reject(ErrIO)
        /\ UNCHANGED tmp
     \/ /\ tmp' = [tmp EXCEPT ![Len(tmp)] = [@ EXCEPT !.hasUnpackaged = FALSE,
                                                      !.unpackaged = NoTree]]
        /\ pc' = "rf_store"
        /\ UNCHANGED result
  /\ UNCHANGED << disk, wsExists, env, proj, op, inner, cfg, tasks, retr, pre,
                  trace, nOps, nextId >>
  /\ UNCHANGED << args, co, handler >>

\* _writeLocalStore: fs.outputFile of config/.local_store completes;
\* indexLightning starts
rf_store ==
  /\ pc = "rf_store"
  /\ \/ /\ rf_reject(ErrStoreWrite)
        /\ UNCHANGED disk
     \/ /\ disk' = OutputLocalStore(disk, proj.path, LocalStoreFrom(retr.fileProperties))
        /\ pc' = "rf_lightning"
        /\ UNCHANGED result
  /\ UNCHANGED << wsExists, tmp, env, proj, op, inner, cfg, tasks, retr, pre,
                  trace, nOps, nextId >>
  /\ UNCHANGED << args, co, handler >>

\* refreshFromServer resolves; when clean called it, clean goes on with
\* _refreshDescribeFromServer
rf_resolve ==
  IF op.name = "clean"
  THEN /\ pc' = "cl_describe"
       /\ trace' = Append(trace, "_refreshDescribeFromServer")
       /\ UNCHANGED result
  ELSE /\ Settle(Resolved(0))
       /\ UNCHANGED trace

\* indexLightning settles; the empty directories of the source root are
\* pruned (the model keeps no empty directory) and the call resolves
rf_lightning ==
  /\ pc = "rf_lightning"
  /\ \E e \in {NoErr} \cup LightningErrs :
       /\ args' = [args EXCEPT !.lightning = e]
       /\ IF e = NoErr
          THEN /\ disk' = OutputConfigFile(disk, proj.path, ".lightning", "lightning1")
               /\ rf_resolve
          ELSE /\ IF IndexLightningTolerates(e)
                  THEN rf_resolve
                  ELSE rf_reject(e) /\ UNCHANGED trace
               /\ UNCHANGED disk
  /\ UNCHANGED << wsExists, tmp, env, proj, op, inner, cfg, tasks, retr, pre,
                  nOps, nextId >>
  /\ UNCHANGED << co, handler >>

(* ---------------------------------------------------------------------- *)
(* The handler of 'sfdcclient-cache-refresh' that _initExisting registers  *)
(* (project.js 237-246)                                                    *)
(* ---------------------------------------------------------------------- *)
\* the network client has renewed its access token and emits the event; the
\* handler runs: _writeSession() takes the token and calls fs.outputFile,
\* and the argument of .then, self._getCachedSession(), is evaluated at
\* once and starts to read config/.session
cacheRefresh ==
  /\ env.kind = "session"
  /\ proj.cacheRefreshListeners > 0
  /\ proj.sfdcClient = "ready"
  /\ handler.runs < MaxRefreshes
  /\ handler.write = "off" /\ handler.read # "pending"
  /\ proj' = [proj EXCEPT !.accessToken = "tok2"]
  /\ handler' = [handler EXCEPT !.write = "pending", !.read = "pending",
                                !.token = "tok2", !.runs = @ + 1]
  /\ UNCHANGED << disk, wsExists, tmp, env, pc, op, inner, cfg, tasks, retr, result,
                  pre, trace, nOps, nextId, args, co >>

\* fs.outputFile of _writeSession calls back.  When it failed, the .catch
\* of the handler logs and throws a new Error, and .done() throws it out of
\* the promise chain: it reaches the event loop as an uncaught exception
cr_write ==
  /\ handler.write = "pending"
  /\ \/ /\ disk' = OutputConfigFile(disk, proj.path, ".session", handler.token)
        /\ handler' = [handler EXCEPT !.write = "off"]
     \/ /\ handler' = [handler EXCEPT !.write = "off", !.uncaught = ErrSessionCache]
        /\ UNCHANGED disk
  /\ UNCHANGED << wsExists, tmp, env, proj, pc, op, inner, cfg, tasks, retr, result,
                  pre, trace, nOps, nextId, args, co >>

\* fs.readJson of _getCachedSession (project.js 625-645) calls back, before
\* or after the write: cachedSession becomes what the file holds; a file
\* that cannot be read leaves it alone
cr_read ==
  /\ handler.read = "pending"
  /\ \E read \in {"json", "failed"} :
       LET parsed == read = "json" /\ disk[proj.path].cfg[".session"] # ABSENT
       IN  /\ proj' = [proj EXCEPT !.cachedSession =
                         IF parsed THEN disk[proj.path].cfg[".session"] ELSE @]
           /\ handler' = [handler EXCEPT !.read = IF parsed THEN "read" ELSE "failed"]
  /\ UNCHANGED << disk, wsExists, tmp, env, pc, op, inner, cfg, tasks, retr, result,
                  pre, trace, nOps, nextId, args, co >>

(* ---------------------------------------------------------------------- *)
(* clean (project.js 524-544), called on an opened project                 *)
(* ---------------------------------------------------------------------- *)
\* the executor: refreshFromServer is called, and its executor runs
clean ==
  /\ env.kind = "opened"
  /\ proj.initialized
  /\ BeginCall(Method("clean"))
  /\ \/ \* temp.mkdirSync threw: refreshFromServer rejects, and so does clean
        /\ SettleCall(op', Rejected(ErrIO))
        /\ UNCHANGED << tmp, proj >>
     \/ /\ tmp' = Append(tmp, TempDir)
        /\ proj' = [proj EXCEPT !.packageXml = "package1"]
        /\ Suspend("rf_pkg")
  /\ trace' = << "refreshFromServer" >>
  /\ UNCHANGED << disk, wsExists, env, inner, nextId >>

\* a describe refresh whose failure is passed over
cl_describeTolerant ==
  /\ pc = "cl_describe"
  /\ \/ /\ UNCHANGED << disk, proj >>
     \/ /\ disk' = OutputConfigFile(disk, proj.path, ".describe", "describe2")
        /\ proj' = [proj EXCEPT !.describe = "describe2"]
  /\ pc' = "cl_index"
  /\ trace' = Append(trace, "indexMetadata")
  /\ UNCHANGED << wsExists, tmp, env, op, inner, cfg, tasks, retr, result, pre,
                  nOps, nextId >>
  /\ UNCHANGED << args, co, handler >>

\* _refreshDescribeFromServer (project.js 916-942) settles: describe()
\* answered and setDescribe wrote config/.describe, or one of them failed;
\* indexMetadata asks the server for the index
cl_describe ==
  /\ pc = "cl_describe"
  /\ \/ /\ \E e \in {ErrNet, ErrIO} : Settle(Rejected(e))
        /\ UNCHANGED << disk, proj, trace >>
     \/ /\ disk' = OutputConfigFile(disk, proj.path, ".describe", "describe2")
        /\ proj' = [proj EXCEPT !.describe = "describe2"]
        /\ pc' = "cl_index"
        /\ trace' = Append(trace, "indexMetadata")
        /\ UNCHANGED result
  /\ UNCHANGED << wsExists, tmp, env, op, inner, cfg, tasks, retr, pre, nOps, nextId >>
  /\ UNCHANGED << args, co, handler >>

\* indexMetadata (project.js 948-969) settles: indexServerProperties
\* answered and fs.outputFile wrote config/.org_metadata, or one of them
\* failed
cl_index ==
  /\ pc = "cl_index"
  /\ \/ /\ \E e \in {ErrNet, ErrIO} : Settle(Rejected(e))
        /\ UNCHANGED disk
     \/ /\ disk' = OutputConfigFile(disk, proj.path, ".org_metadata", "index2")
        /\ Settle(Resolved(0))
  /\ UNCHANGED << wsExists, tmp, env, proj, op, inner, cfg, tasks, retr, pre,
                  trace, nOps, nextId >>
  /\ UNCHANGED << args, co, handler >>

(* ---------------------------------------------------------------------- *)
(* edit (project.js 594-623), called on an opened project                  *)
(* ---------------------------------------------------------------------- *)
\* the executor: the staging directory is made and the retrieve of the
\* requested package is sent
edit ==
  /\ env.kind = "opened"
  /\ proj.initialized
  /\ BeginCall(Method("edit"))
  /\ \/ \* temp.mkdirSync threw
        /\ SettleCall(op', Rejected(ErrIO))
        /\ trace' = << >>
        /\ UNCHANGED tmp
     \/ /\ tmp' = Append(tmp, TempDir)
        /\ trace' = << "retrieveUnpackaged" >>
        /\ Suspend("ed_retrieve")
  /\ UNCHANGED << disk, wsExists, env, proj, inner, nextId >>

\* retrieveUnpackaged answers; _writeLocalStore starts to write the file
\* properties of the answer
ed_retrieve ==
  /\ pc = "ed_retrieve"
  /\ \/ /\ \E e \in CollabErrs : Settle(Rejected(e))
        /\ UNCHANGED << tmp, retr, trace >>
     \/ \E members \in RetrieveAnswers :
          /\ tmp' = [tmp EXCEPT ![Len(tmp)] = [@ EXCEPT !.hasUnpackaged = TRUE,
                                                        !.unpackaged = StagedTree(members)]]
          /\ retr' = [members |-> members, fileProperties |-> FileProperties(members)]
          /\ pc' = "ed_store"
          /\ trace' = Append(trace, "_writeLocalStore")
          /\ UNCHANGED result
  /\ UNCHANGED << disk, wsExists, env, proj, op, inner, cfg, tasks, pre, nOps, nextId >>
  /\ UNCHANGED << args, co, handler >>

\* an edit that merges the entries of its retrieval into the store
ed_storeMerging ==
  /\ pc = "ed_store"
  /\ \/ /\ Settle(Rejected(ErrStoreWrite))
        /\ UNCHANGED << disk, trace >>
     \/ LET stored == OutputLocalStore(disk, proj.path,
                                       WriteEntries(disk[proj.path].store.entries,
                                                    retr.fileProperties))
        IN  \/ /\ disk' = stored
               /\ trace' = Append(trace, "emptyDirectoryRecursiveSync")
               /\ Settle(Rejected(ErrIO))
            \/ /\ disk' = emptyDirectoryRecursiveSync(stored, proj.path)
               /\ trace' = trace \o << "emptyDirectoryRecursiveSync", "replaceLocalFiles" >>
               /\ pc' = "ed_replace"
               /\ UNCHANGED result
  /\ UNCHANGED << wsExists, tmp, env, proj, op, inner, cfg, tasks, retr, pre, nOps, nextId >>
  /\ UNCHANGED << args, co, handler >>

\* _writeLocalStore settles: fs.outputFile of config/.local_store completed,
\* the source root is emptied and the walk of replaceLocalFiles over
\* <staging>/unpackaged starts
ed_store ==
  /\ pc = "ed_store"
  /\ \/ /\ Settle(Rejected(ErrStoreWrite))
        /\ UNCHANGED << disk, trace >>
     \/ LET stored == OutputLocalStore(disk, proj.path, LocalStoreFrom(retr.fileProperties))
        IN  \/ \* util.emptyDirectoryRecursiveSync threw
               /\ disk' = stored
               /\ trace' = Append(trace, "emptyDirectoryRecursiveSync")
               /\ Settle(Rejected(ErrIO))
            \/ /\ disk' = emptyDirectoryRecursiveSync(stored, proj.path)
               /\ trace' = trace \o << "emptyDirectoryRecursiveSync", "replaceLocalFiles" >>
               /\ pc' = "ed_replace"
               /\ UNCHANGED result
  /\ UNCHANGED << wsExists, tmp, env, proj, op, inner, cfg, tasks, retr, pre, nOps, nextId >>
  /\ UNCHANGED << args, co, handler >>

\* the finder of replaceLocalFiles ends, or reports an error; the package
\* descriptor of the new src/package.xml starts to load
ed_replace ==
  /\ pc = "ed_replace"
  /\ \/ /\ Settle(Rejected(ErrIO))
        /\ \E k \in 0..Len(Found(tmp[Len(tmp)].unpackaged)) :
             disk' = replaceLocalFilesUpTo(disk, proj, tmp[Len(tmp)].unpackaged, TRUE, k)
        /\ UNCHANGED trace
     \/ /\ disk' = replaceLocalFiles(disk, proj, tmp[Len(tmp)].unpackaged, TRUE)
        /\ pc' = "ed_pkg"
        /\ trace' = Append(trace, "newPackage.init")
        /\ UNCHANGED result
  /\ UNCHANGED << wsExists, tmp, env, proj, op, inner, cfg, tasks, retr, pre, nOps, nextId >>
  /\ UNCHANGED << args, co, handler >>

\* a descriptor that is put in place whether it loaded or not
ed_pkgSwapping ==
  /\ pc = "ed_pkg"
  /\ \/ /\ Settle(Rejected(ErrIO))
        /\ UNCHANGED trace
     \/ /\ trace' = Append(trace, "removeEmptyDirectoriesRecursiveSync")
        /\ Settle(Resolved(0))
  /\ proj' = [proj EXCEPT !.packageXml = "package2"]
  /\ UNCHANGED << disk, wsExists, tmp, env, op, inner, cfg, tasks, retr, pre, nOps, nextId >>
  /\ UNCHANGED << args, co, handler >>

\* newPackage.init() settles: the new descriptor becomes packageXml, the
\* empty directories of the source root are pruned (the model keeps no empty
\* directory) and the call resolves
ed_pkg ==
  /\ pc = "ed_pkg"
  /\ \/ /\ Settle(Rejected(ErrIO))
        /\ UNCHANGED << proj, trace >>
     \/ /\ proj' = [proj EXCEPT !.packageXml = "package2"]
        /\ trace' = Append(trace, "removeEmptyDirectoriesRecursiveSync")
        /\ Settle(Resolved(0))
  /\ UNCHANGED << disk, wsExists, tmp, env, op, inner, cfg, tasks, retr, pre, nOps, nextId >>
  /\ UNCHANGED << args, co, handler >>

(* ---------------------------------------------------------------------- *)
(* updateLocalStore (project.js 1085-1153) and _writeLocalStore            *)
(* (1155-1204), called on an opened project                                *)
(* ---------------------------------------------------------------------- *)
\* the executor: Promise.resolve(fileProperties) is awaited
updateLocalStore ==
  /\ env.kind = "opened"
  /\ proj.initialized
  /\ \E props \in PropertyLists, input \in {"value", "rejected"} :
       BeginCallWith(Method("updateLocalStore"),
                     [NoArgs EXCEPT !.props = props, !.input = input])
  /\ Suspend("ul_then")
  /\ UNCHANGED << disk, wsExists, tmp, env, proj, inner, trace, nextId >>

\* the promise of the file properties settles.  The then-callback merges
\* them into the store and fs.outputFile completes; a rejection has no
\* handler, and the promise of the call is never settled.
ul_then ==
  /\ pc = "ul_then"
  /\ IF args.input = "rejected"
     THEN /\ pc' = "abandoned"
          /\ UNCHANGED << disk, result >>
     ELSE LET m == MergedStore(disk, proj, args.props)
          IN  IF m.err # NoErr
              THEN /\ Settle(Rejected(m.err))
                   /\ UNCHANGED disk
              ELSE \/ /\ disk' = OutputLocalStore(disk, proj.path, m.entries)
                      /\ Settle(Resolved(0))
                   \/ /\ Settle(Rejected(ErrIO))
                      /\ UNCHANGED disk
  /\ UNCHANGED << wsExists, tmp, env, proj, op, inner, cfg, tasks, retr, pre,
                  trace, nOps, nextId, args, co, handler >>

\* the executor: Promise.resolve(fileProperties) is awaited
_writeLocalStore ==
  /\ env.kind = "opened"
  /\ proj.initialized
  /\ \E props \in RetrievedLists, input \in {"value", "rejected"} :
       BeginCallWith(Method("_writeLocalStore"),
                     [NoArgs EXCEPT !.props = props, !.input = input])
  /\ Suspend("wl_then")
  /\ UNCHANGED << disk, wsExists, tmp, env, proj, inner, trace, nextId >>

\* the promise of the file properties settles: the store is built from {}
\* and fs.outputFile completes, or the catch rejects
wl_then ==
  /\ pc = "wl_then"
  /\ IF args.input = "rejected"
     THEN /\ Settle(Rejected(ErrInput))
          /\ UNCHANGED disk
     ELSE \/ /\ disk' = OutputLocalStore(disk, proj.path, LocalStoreFrom(args.props))
             /\ Settle(Resolved(0))
          \/ /\ Settle(Rejected(ErrStoreWrite))
             /\ UNCHANGED disk
  /\ UNCHANGED << wsExists, tmp, env, proj, op, inner, cfg, tasks, retr, pre,
                  trace, nOps, nextId, args, co, handler >>

(* ---------------------------------------------------------------------- *)
(* compile (project.js 550-587)                                            *)
(* ---------------------------------------------------------------------- *)
\* the catch of the chain of compile, and the error callback of fs.copy
cp_reject(e) ==
  /\ Settle(Rejected(e))

\* the executor: the temp directory is made and the copy of the source
\* root to <temp>/unpackaged starts
compile ==
  /\ env.kind = "opened"
  /\ proj.initialized
  /\ BeginCall(Method("compile"))
  /\ \/ \* temp.mkdirSync threw
        /\ SettleCall(op', Rejected(ErrIO))
        /\ UNCHANGED tmp
     \/ /\ tmp' = Append(tmp, TempDir)
        /\ Suspend("cp_copy")
  /\ UNCHANGED << disk, wsExists, env, proj, inner, trace, nextId >>

\* fs.copy calls back; util.zipDirectory starts
cp_copy ==
  /\ pc = "cp_copy"
  /\ \/ /\ cp_reject(ErrIO)
        /\ UNCHANGED tmp
     \/ /\ disk[proj.path].hasSrc
        /\ tmp' = [tmp EXCEPT ![Len(tmp)] = [@ EXCEPT !.hasUnpackaged = TRUE,
                                                      !.unpackaged = disk[proj.path].src]]
        /\ pc' = "cp_zip"
        /\ UNCHANGED result
  /\ UNCHANGED << disk, wsExists, env, proj, op, inner, cfg, tasks, retr, pre,
                  trace, nOps, nextId, args, co, handler >>

\* util.zipDirectory settles; the archive is sent to sfdcClient.deploy
cp_zip ==
  /\ pc = "cp_zip"
  /\ \/ /\ cp_reject(ErrIO)
        /\ UNCHANGED tmp
     \/ /\ tmp' = [tmp EXCEPT ![Len(tmp)] = [@ EXCEPT !.zip = TRUE]]
        /\ pc' = "cp_deploy"
        /\ UNCHANGED result
  /\ UNCHANGED << disk, wsExists, env, proj, op, inner, cfg, tasks, retr, pre,
                  trace, nOps, nextId, args, co, handler >>

\* a chain of compile that hands the deploy result over whatever the merge did
cp_mergeIgnoringFailure ==
  /\ pc = "cp_merge"
  /\ LET m == MergedStore(disk, proj, args.deployResult.fileProperties)
     IN  IF m.err # NoErr
         THEN /\ Settle(Resolved(args.deployResult.id))
              /\ UNCHANGED disk
         ELSE \/ /\ disk' = OutputLocalStore(disk, proj.path, m.entries)
                 /\ Settle(Resolved(args.deployResult.id))
              \/ /\ Settle(Resolved(args.deployResult.id))
                 /\ UNCHANGED disk
  /\ UNCHANGED << wsExists, tmp, env, proj, op, inner, cfg, tasks, retr, pre,
                  trace, nOps, nextId, args, co, handler >>

\* updateLocalStore(retrieveResult.fileProperties) settles: the chain
\* resolves with the deploy result, or its catch rejects
cp_merge ==
  /\ pc = "cp_merge"
  /\ LET m == MergedStore(disk, proj, args.deployResult.fileProperties)
     IN  IF m.err # NoErr
         THEN /\ cp_reject(m.err)
              /\ UNCHANGED disk
         ELSE \/ /\ disk' = OutputLocalStore(disk, proj.path, m.entries)
                 /\ Settle(Resolved(args.deployResult.id))
              \/ /\ cp_reject(ErrIO)
                 /\ UNCHANGED disk
  /\ UNCHANGED << wsExists, tmp, env, proj, op, inner, cfg, tasks, retr, pre,
                  trace, nOps, nextId, args, co, handler >>

\* sfdcClient.deploy settles; with a retrieve result in the answer
\* updateLocalStore starts, without one the chain resolves
cp_deploy ==
  /\ pc = "cp_deploy"
  /\ \/ /\ \E e \in CollabErrs \cup {ErrDeploy} : cp_reject(e)
        /\ UNCHANGED args
     \/ \E d \in DeployResults :
          /\ args' = [args EXCEPT !.deployResult = d]
          /\ IF d.hasRetrieve
             THEN /\ pc' = "cp_merge"
                  /\ UNCHANGED result
             ELSE Settle(Resolved(d.id))
  /\ UNCHANGED << disk, wsExists, tmp, env, proj, op, inner, cfg, tasks, retr,
                  pre, trace, nOps, nextId >>
  /\ UNCHANGED << co, handler >>

(* ---------------------------------------------------------------------- *)
(* replaceLocalFiles (project.js 329-375), called with the staged output   *)
(* of an earlier retrieve                                                  *)
(* ---------------------------------------------------------------------- *)
\* the executor: the finder starts to walk remotePath, <staging>/unpackaged
rl_find ==
  /\ env.kind = "opened"
  /\ proj.initialized
  /\ tmp[1].hasUnpackaged
  /\ \E b \in BOOLEAN :
       BeginCallWith(Method("replaceLocalFiles"), [NoArgs EXCEPT !.replacePackageXml = b])
  /\ Suspend("rl_walk")
  /\ UNCHANGED << disk, wsExists, tmp, env, proj, inner, trace, nextId >>

\* the 'file' handler runs for the files the finder reports, until the
\* finder ends or reports an error, or a copy throws in the handler: that
\* exception has no handler, and the promise of the call is never settled
rl_walk ==
  /\ pc = "rl_walk"
  /\ LET remote == tmp[1].unpackaged
     IN  \/ /\ disk' = replaceLocalFiles(disk, proj, remote, args.replacePackageXml)
            /\ pc' = "rl_remove"
            /\ UNCHANGED result
         \/ \E k \in 0..Len(Found(remote)) :
              /\ disk' = replaceLocalFilesUpTo(disk, proj, remote, args.replacePackageXml, k)
              /\ Settle(Rejected(ErrIO))
         \/ \E k \in 0..(Len(Found(remote)) - 1) :
              /\ disk' = replaceLocalFilesUpTo(disk, proj, remote, args.replacePackageXml, k)
              /\ pc' = "abandoned"
              /\ UNCHANGED result
  /\ UNCHANGED << wsExists, tmp, env, proj, op, inner, cfg, tasks, retr, pre,
                  trace, nOps, nextId, args, co, handler >>

\* an 'end' handler that leaves the staged output where it is
rl_removeNothing ==
  /\ pc = "rl_remove"
  /\ Settle(Resolved(0))
  /\ UNCHANGED << disk, wsExists, tmp, env, proj, op, inner, cfg, tasks, retr, pre,
                  trace, nOps, nextId, args, co, handler >>

\* the 'end' handler: fs.removeAsync(remotePath) settles
rl_remove ==
  /\ pc = "rl_remove"
  /\ IF tmp[1].hasUnpackaged
     THEN \/ /\ tmp' = [tmp EXCEPT ![1] = [@ EXCEPT !.hasUnpackaged = FALSE,
                                                   !.unpackaged = NoTree]]
             /\ Settle(Resolved(0))
          \/ /\ Settle(Rejected(ErrIO))
             /\ UNCHANGED tmp
     ELSE /\ Settle(Resolved(0))
          /\ UNCHANGED tmp
  /\ UNCHANGED << disk, wsExists, env, proj, op, inner, cfg, tasks, retr, pre,
                  trace, nOps, nextId, args, co, handler >>

(* ---------------------------------------------------------------------- *)
(* compile (project.js 550-587) called without waiting for the call in     *)
(* flight: the project holds no lock, and the steps of the two calls       *)
(* interleave at their callbacks                                           *)
(* ---------------------------------------------------------------------- *)
\* what the refreshFromServer of the same caller is doing
OtherCall ==
  IF op.name # "refreshFromServer" THEN "notbegun"
  ELSE IF pc = "idle" THEN "settled" ELSE "inflight"

\* the promise of the compile settles
co_settle(c, state, err) ==
  co' = [c EXCEPT !.pc = "done", !.state = state, !.err = err, !.atEnd = OtherCall]

\* the executor: the temp directory is made and the copy of the source
\* root to <temp>/unpackaged starts
co_compile ==
  /\ env.kind = "race"
  /\ proj.initialized
  /\ op.name = "initialize" => Quiescent
  /\ co.pc = "none"
  /\ nOps < MaxOps
  /\ nOps' = nOps + 1
  /\ \/ \* temp.mkdirSync threw
        co_settle([co EXCEPT !.atStart = OtherCall], "rejected", ErrIO)
     \/ co' = [co EXCEPT !.pc = "co_copy", !.dir = TempDir, !.atStart = OtherCall]
  /\ UNCHANGED << disk, wsExists, tmp, env, proj, pc, op, inner, cfg, tasks, retr,
                  result, pre, trace, nextId, args, handler >>

\* fs.copy calls back; util.zipDirectory starts
co_copy ==
  /\ co.pc = "co_copy"
  /\ \/ co_settle(co, "rejected", ErrIO)
     \/ /\ disk[proj.path].hasSrc
        /\ co' = [co EXCEPT !.pc = "co_zip", !.dir.hasUnpackaged = TRUE,
                            !.dir.unpackaged = disk[proj.path].src]
  /\ UNCHANGED << disk, wsExists, tmp, env, proj, pc, op, inner, cfg, tasks, retr,
                  result, pre, trace, nOps, nextId, args, handler >>

\* util.zipDirectory settles; the archive is sent to sfdcClient.deploy
co_zip ==
  /\ co.pc = "co_zip"
  /\ \/ co_settle(co, "rejected", ErrIO)
     \/ co' = [co EXCEPT !.pc = "co_deploy", !.dir.zip = TRUE]
  /\ UNCHANGED << disk, wsExists, tmp, env, proj, pc, op, inner, cfg, tasks, retr,
                  result, pre, trace, nOps, nextId, args, handler >>

\* a compile that builds the store of its deploy result from {}
co_deployFromScratch ==
  /\ co.pc = "co_deploy"
  /\ \/ \E e \in CollabErrs \cup {ErrDeploy} : co_settle(co, "rejected", e)
     \/ \E d \in DeployResults :
          LET c == [co EXCEPT !.deployResult = d, !.deployed = TRUE]
              m == MergedStoreFromScratch(disk, proj, d.fileProperties)
          IN  IF ~d.hasRetrieve THEN co_settle(c, "resolved", NoErr)
              ELSE IF m.err # NoErr THEN co_settle(c, "rejected", m.err)
              ELSE co' = [c EXCEPT !.pc = "co_write", !.entries = m.entries]
  /\ UNCHANGED << disk, wsExists, tmp, env, proj, pc, op, inner, cfg, tasks, retr,
                  result, pre, trace, nOps, nextId, args, handler >>

\* sfdcClient.deploy settles: the server holds what was deployed.  With a
\* retrieve result in the answer updateLocalStore runs: it reads
\* config/.local_store, assigns the entries of the file properties and calls
\* fs.outputFile; without one the chain resolves
co_deploy ==
  /\ co.pc = "co_deploy"
  /\ \/ \E e \in CollabErrs \cup {ErrDeploy} : co_settle(co, "rejected", e)
     \/ \E d \in DeployResults :
          LET c == [co EXCEPT !.deployResult = d, !.deployed = TRUE]
              m == MergedStore(disk, proj, d.fileProperties)
          IN  IF ~d.hasRetrieve THEN co_settle(c, "resolved", NoErr)
              ELSE IF m.err # NoErr THEN co_settle(c, "rejected", m.err)
              ELSE co' = [c EXCEPT !.pc = "co_write", !.entries = m.entries]
  /\ UNCHANGED << disk, wsExists, tmp, env, proj, pc, op, inner, cfg, tasks, retr,
                  result, pre, trace, nOps, nextId, args, handler >>

\* fs.outputFile of updateLocalStore calls back: config/.local_store holds
\* what updateLocalStore put together when it read the store, and the
\* chain resolves with the deploy result; or the write failed
co_write ==
  /\ co.pc = "co_write"
  /\ \/ /\ disk' = OutputLocalStore(disk, proj.path, co.entries)
        /\ co_settle(co, "resolved", NoErr)
     \/ /\ co_settle(co, "rejected", ErrIO)
        /\ UNCHANGED disk
  /\ UNCHANGED << wsExists, tmp, env, proj, pc, op, inner, cfg, tasks, retr,
                  result, pre, trace, nOps, nextId, args, handler >>

(* ---------------------------------------------------------------------- *)
(* getOrgMetadataIndexWithSelections (project.js 985-1079), called on an   *)
(* opened project                                                          *)
(* ---------------------------------------------------------------------- *)
\* the executor: without config/.org_metadata it resolves with [], else
\* fs.readJson starts.  The subscription is the one of the package
\* descriptor the call will consult.  The index is asked for when the
\* project was opened, and again after it was asked for.
getOrgMetadataIndexWithSelections ==
  /\ env.kind \in {"opened", "sparse"}
  /\ proj.initialized
  /\ result.op.name \in {"initialize", "getOrgMetadataIndexWithSelections"}
  /\ \E keyword \in {UNDEF, "Foo"}, hasIds \in BOOLEAN, ids \in IdLists,
        packageLocation \in {UNDEF, "/ext/package.xml"}, subscription \in Subscriptions :
       /\ ~hasIds => ids = {}
       /\ keyword # UNDEF => ~hasIds /\ packageLocation = UNDEF
       /\ BeginCallWith(Method("getOrgMetadataIndexWithSelections"),
                        [NoArgs EXCEPT !.keyword = keyword, !.hasIds = hasIds, !.ids = ids,
                                       !.packageLocation = packageLocation,
                                       !.subscription = subscription])
  /\ IF disk[proj.path].cfg[".org_metadata"] # ABSENT
     THEN Suspend("gi_read")
     ELSE SettleCall(op', Resolved(0))
  /\ UNCHANGED << disk, wsExists, tmp, env, proj, inner, trace, nextId >>

\* fs.readJson calls back: the index is kept on the project, and the
\* descriptor of packageLocation, if one was given, starts to load
gi_read ==
  /\ pc = "gi_read"
  /\ \/ /\ Settle(Rejected(ErrIO))
        /\ UNCHANGED << proj, args >>
     \/ /\ proj' = [proj EXCEPT !.orgMetadata = disk[proj.path].cfg[".org_metadata"]]
        /\ args' = [args EXCEPT !.index =
                      [NoIndex EXCEPT !.present = TRUE,
                                      !.nodes = IndexNodes(disk[proj.path].cfg[".org_metadata"])]]
        /\ pc' = "gi_then"
        /\ UNCHANGED result
  /\ UNCHANGED << disk, wsExists, tmp, env, op, inner, cfg, tasks, retr, pre,
                  trace, nOps, nextId >>
  /\ UNCHANGED << co, handler >>

\* a then-callback whose keyword also filters the selection
gi_thenFiltering ==
  /\ pc = "gi_then"
  /\ \/ /\ args.packageLocation # UNDEF
        /\ pc' = "abandoned"
        /\ UNCHANGED << args, result >>
     \/ LET sel == WithSelections(args.index, args.subscription, args.hasIds, args.ids)
        IN  /\ args' = [args EXCEPT !.index.select =
                                      IF args.keyword # UNDEF
                                      THEN [n \in Nodes |->
                                              sel.select[n]
                                              /\ n \in setVisibility(args.index, args.keyword)]
                                      ELSE sel.select,
                                    !.index.ids = sel.ids,
                                    !.index.visible = IF args.keyword # UNDEF
                                                      THEN setVisibility(args.index, args.keyword)
                                                      ELSE @]
            /\ IF sel.rejected
               THEN Settle(Rejected(ErrUnrecognized))
               ELSE Settle(Resolved(0))
  /\ UNCHANGED << disk, wsExists, tmp, env, proj, op, inner, cfg, tasks, retr, pre,
                  trace, nOps, nextId >>
  /\ UNCHANGED << co, handler >>

\* the promise of the descriptor settles.  The then-callback marks the
\* index and resolves with it, or has rejected for an unrecognized type; a
\* rejection of customPackage.init() has no handler, and the promise of the
\* call is never settled.
gi_then ==
  /\ pc = "gi_then"
  /\ \/ /\ args.packageLocation # UNDEF
        /\ pc' = "abandoned"
        /\ UNCHANGED << args, result >>
     \/ LET sel == WithSelections(args.index, args.subscription, args.hasIds, args.ids)
        IN  /\ args' = [args EXCEPT !.index.select = sel.select,
                                    !.index.ids = sel.ids,
                                    !.index.visible = IF args.keyword # UNDEF
                                                      THEN setVisibility(args.index, args.keyword)
                                                      ELSE @]
            /\ IF sel.rejected
               THEN Settle(Rejected(ErrUnrecognized))
               ELSE Settle(Resolved(0))
  /\ UNCHANGED << disk, wsExists, tmp, env, proj, op, inner, cfg, tasks, retr, pre,
                  trace, nOps, nextId >>
  /\ UNCHANGED << co, handler >>

Next ==
  \/ initialize_initNew
  \/ co_compile
  \/ co_copy
  \/ co_zip
  \/ co_deploy
  \/ co_write
  \/ cacheRefresh
  \/ cr_write
  \/ cr_read
  \/ clean
  \/ cl_describe
  \/ cl_index
  \/ edit
  \/ ed_retrieve
  \/ ed_store
  \/ ed_replace
  \/ ed_pkg
  \/ refreshFromServer
  \/ rf_pkg
  \/ rf_retrieve
  \/ rf_replace
  \/ rf_remove
  \/ rf_store
  \/ rf_lightning
  \/ initialize_initExisting
  \/ ie_pkg
  \/ ie_settings
  \/ ie_session
  \/ ie_connect
  \/ ie_writeSession
  \/ ie_index
  \/ ie_describe
  \/ ie_listen
  \/ initialize_fromDirectory
  \/ fd_describe
  \/ fd_setDescribe
  \/ fd_pkg
  \/ fd_retrieve
  \/ fd_config
  \/ fd_store
  \/ retrieveAndWriteToDisk
  \/ rw_describe
  \/ rw_retrieve
  \/ rw_config
  \/ rw_store
  \/ \E t \in PlainWriters : initConfig_write(t)
  \/ initConfig_describe
  \/ initConfig_setDescribe
  \/ initConfig_indexLightning
  \/ initConfig_storePassword
  \/ initialize_settle
  \/ updateLocalStore
  \/ ul_then
  \/ _writeLocalStore
  \/ wl_then
  \/ compile
  \/ cp_copy
  \/ cp_zip
  \/ cp_deploy
  \/ cp_merge
  \/ rl_find
  \/ rl_walk
  \/ rl_remove
  \/ getOrgMetadataIndexWithSelections
  \/ gi_read
  \/ gi_then

Spec == Init /\ [][Next]_vars

\* the steps of two instances that make the same new project
NextTwin ==
  \/ initialize_initNew
  \/ initialize_settle
  \/ retrieveAndWriteToDisk
  \/ rw_describe
  \/ rw_retrieve
  \/ rw_config
  \/ rw_store
  \/ \E t \in PlainWriters : initConfig_write(t)
  \/ initConfig_describe
  \/ initConfig_setDescribe
  \/ initConfig_indexLightning
  \/ initConfig_storePassword
  \/ ot_retrieveAndWriteToDisk
  \/ ot_describe
  \/ ot_retrieve
  \/ ot_config

TwinSpec == InitTwin /\ [][NextTwin]_vars

\* the steps that read and write the settings and the password of a project
NextKeyring ==
  \/ initialize_initNew
  \/ initialize_settle
  \/ retrieveAndWriteToDisk
  \/ rw_describe
  \/ rw_retrieve
  \/ rw_config
  \/ rw_store
  \/ \E t \in PlainWriters : initConfig_write(t)
  \/ initConfig_describe
  \/ initConfig_setDescribe
  \/ initConfig_indexLightning
  \/ initConfig_storePassword
  \/ initialize_initExisting
  \/ ie_pkg
  \/ ie_settings
  \/ ie_session
  \/ ie_connect
  \/ ie_writeSession
  \/ ie_index
  \/ ie_describe
  \/ ie_listen
  \/ updateSetting
  \/ updateCreds
  \/ uc_connect
  \/ uc_username
  \/ uc_environment
  \/ uc_loginUrl
  \/ uc_debug
  \/ uc_initExisting
  \/ uc_writeSession
  \/ uc_session

KeyringSpec == (InitBootstrap \/ InitKeyring) /\ [][NextKeyring]_vars

\* the steps of the operations on an opened project
NextOpened ==
  \/ initialize_initExisting
  \/ clean
  \/ cl_describe
  \/ cl_index
  \/ edit
  \/ ed_retrieve
  \/ ed_store
  \/ ed_replace
  \/ ed_pkg
  \/ ie_pkg
  \/ ie_settings
  \/ ie_session
  \/ ie_connect
  \/ ie_writeSession
  \/ ie_index
  \/ ie_describe
  \/ ie_listen
  \/ initialize_settle
  \/ refreshFromServer
  \/ rf_pkg
  \/ rf_retrieve
  \/ rf_replace
  \/ rf_remove
  \/ rf_store
  \/ rf_lightning
  \/ updateLocalStore
  \/ ul_then
  \/ _writeLocalStore
  \/ wl_then
  \/ compile
  \/ cp_copy
  \/ cp_zip
  \/ cp_deploy
  \/ cp_merge
  \/ rl_find
  \/ rl_walk
  \/ rl_remove
  \/ getOrgMetadataIndexWithSelections
  \/ gi_read
  \/ gi_then

\* an opened project whose collaborators answer and whose event loop runs
\* every callback that is due: a step that can be taken is taken
LiveSpec == InitOpened /\ [][NextOpened]_vars /\ WF_vars(NextOpened)

(* ---------------------------------------------------------------------- *)
(* Properties                                                              *)
(* ---------------------------------------------------------------------- *)
NewCall      == [name |-> "initialize", isNewProject |-> TRUE,  isExistingDirectory |-> FALSE]
FromDirCall  == [name |-> "initialize", isNewProject |-> TRUE,  isExistingDirectory |-> TRUE]
ExistingCall == [name |-> "initialize", isNewProject |-> FALSE, isExistingDirectory |-> FALSE]

\* the last call was call, it has settled and none of its work is left
Finished(call) == Quiescent /\ result.op = call /\ result.state # "none"
FinishedNamed(name) == Quiescent /\ result.op.name = name /\ result.state # "none"

\* C1: when retrieveAndWriteToDisk fails after it made the project
\* directory, it rejects and, once the call and every writer it started
\* have finished, the project directory does not exist.
C1_RollbackRemovesProject ==
  ( /\ FinishedNamed("retrieveAndWriteToDisk")
    /\ result.state = "rejected"
    /\ result.err # ErrPathTaken )
  => ~ExistsSync(disk, proj.path)

\* C2: when _initNewProjectFromExistingDirectory, called with an origin that
\* is not workspace/name, fails after it started copying the origin, it
\* rejects and workspace/name does not exist afterwards.
C2_FailedImportRemovesCopy ==
  ( /\ Finished(FromDirCall)
    /\ result.state = "rejected"
    /\ IsString(proj.workspace)
    /\ proj.origin # Join(proj.workspace, proj.name)
    /\ FromDirValidation(pre.proj, pre.fs.disk) = NoErr )
  => ~ExistsSync(disk, Join(proj.workspace, proj.name))

\* what is on disk at the start of the call is on disk now
NothingDeleted == \A l \in Locs : pre.fs.disk[l].exists => disk[l].exists

\* C3 (as stated): _initNewProjectFromExistingDirectory deletes no directory
\* that existed before the call, and with another origin and a directory at
\* workspace/name it rejects with 'Project with this name already exists in
\* the selected workspace' and leaves that directory untouched.
C3_TakenNameAlwaysReported ==
  ( Finished(FromDirCall) /\ IsString(proj.workspace) )
  => LET dest == Join(proj.workspace, proj.name)
     IN  /\ NothingDeleted
         /\ ( proj.origin # dest /\ pre.fs.disk[dest].exists )
            => /\ result.state = "rejected"
               /\ result.err = ErrNameTaken
               /\ disk[dest] = pre.fs.disk[dest]

\* C3 (amended): _initNewProjectFromExistingDirectory deletes no directory
\* that existed before the call, at any moment of the workflow; with another
\* origin and a directory at workspace/name it rejects and leaves that
\* directory untouched, with the message of the first check that fails: the
\* src check, the package.xml check, and only then 'Project with this name
\* already exists in the selected workspace'.
C3_ExistingDirectoriesSurvive ==
  ( op = FromDirCall )
  => /\ NothingDeleted
     /\ ( Finished(FromDirCall) /\ IsString(proj.workspace) )
        => LET dest   == Join(proj.workspace, proj.name)
               origin == pre.fs.disk[proj.origin]
           IN  ( proj.origin # dest /\ pre.fs.disk[dest].exists )
               => /\ result.state = "rejected"
                  /\ result.err = ( IF ~(origin.exists /\ origin.hasSrc) THEN ErrNoSrc
                                    ELSE IF origin.src[Manifest] = ABSENT THEN ErrNoPkg
                                    ELSE ErrNameTaken )
                  /\ disk[dest] = pre.fs.disk[dest]

C3_Witness ==
  /\ Finished(FromDirCall)
  /\ result.err = ErrNameTaken
  /\ proj.origin = ExtDir
  /\ disk[ProjDir].exists
  /\ disk[ProjDir] = pre.fs.disk[ProjDir]

\* C4: the validation errors (_initNew without a workspace or with
\* workspace/name on disk, _initNewProjectFromExistingDirectory without a
\* workspace, a src directory or src/package.xml, retrieveAndWriteToDisk
\* with the project path on disk) reject and leave the file system as it
\* was when the call started.
C4_ValidationLeavesDiskAlone ==
  /\ ( /\ Quiescent
       /\ result.state = "rejected"
       /\ \/ result.op = NewCall /\ result.err \in {ErrNoWorkspace, ErrDirExists}
          \/ result.op = FromDirCall /\ result.err \in {ErrSelectWs, ErrNoSrc, ErrNoPkg}
          \/ result.op.name = "retrieveAndWriteToDisk" /\ result.err = ErrPathTaken )
     => FileSystem = pre.fs
  /\ ( Finished(FromDirCall) /\ Falsy(pre.proj.workspace) )
     => result.state = "rejected" /\ result.err = ErrSelectWs
  /\ ( FinishedNamed("retrieveAndWriteToDisk") /\ ExistsSync(pre.fs.disk, pre.proj.path) )
     => result.state = "rejected" /\ result.err = ErrPathTaken
  /\ ( Finished(NewCall) /\ Falsy(pre.proj.workspace) /\ Falsy(env.mm_workspace) )
     => result.state = "rejected" /\ result.err = ErrNoWorkspace

C4_Witness ==
  /\ FinishedNamed("retrieveAndWriteToDisk")
  /\ result.err = ErrPathTaken
  /\ disk[ProjDir].exists
  /\ FileSystem = pre.fs

\* the first half of C5: with a workspace and no directory at W/N the
\* initialization succeeds with the id it generated
NewProjectSucceeds ==
  ( Finished(NewCall) /\ IsString(proj.workspace)
    /\ ~ExistsSync(pre.fs.disk, Join(proj.workspace, proj.name)) )
  => /\ result.state = "resolved"
     /\ result.value = proj.id
     /\ proj.id >= 1

\* C5 (as stated): initializing a new project for W and N with no W/N on
\* disk succeeds with a generated id, and repeating the initialization with
\* the same W and N then rejects with 'Directory already exists!'.
C5_RepeatedInitializationRejects ==
  /\ NewProjectSucceeds
  /\ ( Finished(NewCall) /\ pre.result.op = NewCall /\ pre.result.state = "resolved" )
     => result.state = "rejected" /\ result.err = ErrDirExists

\* C5 (amended): initializing a new project for W and N with no W/N on
\* disk succeeds with a generated id and makes no project directory;
\* repeating it rejects with 'Directory already exists!' once W/N is on
\* disk (retrieveAndWriteToDisk made it), and succeeds with another id as
\* long as W/N is not.
C5_InitializationRejectsOnceDirectoryExists ==
  /\ NewProjectSucceeds
  /\ ( Finished(NewCall) /\ IsString(proj.workspace)
       /\ ExistsSync(pre.fs.disk, Join(proj.workspace, proj.name)) )
     => result.state = "rejected" /\ result.err = ErrDirExists
  /\ ( Finished(NewCall) /\ result.state = "resolved" )
     => /\ disk = pre.fs.disk
        /\ ( pre.result.op = NewCall /\ pre.result.state = "resolved" )
           => result.value # pre.result.value

C5_Witness ==
  /\ Finished(NewCall)
  /\ result.err = ErrDirExists
  /\ pre.result.op.name = "retrieveAndWriteToDisk"
  /\ pre.result.state = "resolved"
  /\ pre.proj.id >= 1

\* C6: on each of the three paths of initialize, initialized is set when
\* the workflow succeeded and only then; when the workflow fails, initialize
\* rejects with the workflow's error and the call leaves initialized alone.
C6_InitializedWhenWorkflowSucceeded ==
  ( op.name = "initialize" )
  => /\ pc # "idle" => proj.initialized = pre.proj.initialized
     /\ ( pc = "idle" /\ result.state # "none" )
        => /\ result.state = inner.state
           /\ inner.state = "resolved" => proj.initialized
           /\ inner.state = "rejected"
              => /\ result.err = inner.err
                 /\ proj.initialized = pre.proj.initialized

C6_Witness ==
  /\ Finished(ExistingCall)
  /\ result.state = "resolved"
  /\ proj.initialized
  /\ ~pre.proj.initialized

\* the eight steps of _initExisting in the order of its chain
ExistingStepOrder ==
  << "packageXml.init", "_getSettings", "_getCachedSession", "sfdcClient.initialize",
     "_writeSession", "getOrgMetadataIndexWithSelections",
     "_refreshDescribeFromServer", "startSystemStreamingListener" >>

\* the message carries one of the three login signatures
HasLoginSignature(e) ==
  \E frag \in {"INVALID_LOGIN", "EXPIRED_PASSWORD", "LOGIN_MUST_USE_SECURITY_TOKEN"} :
    Contains(e, frag)

\* C7: in _initExisting a failure whose message holds INVALID_LOGIN,
\* EXPIRED_PASSWORD or LOGIN_MUST_USE_SECURITY_TOKEN sets valid to false and
\* rejects; any other failure rejects and leaves valid as it was; valid
\* becomes true only when every step, the log listener's start included,
\* has succeeded.
C7_ValidFollowsAuthentication ==
  ( op = ExistingCall )
  => /\ ( inner.state = "rejected" /\ HasLoginSignature(inner.err) )
        => proj.valid = "false"
     /\ ( inner.state = "rejected" /\ ~HasLoginSignature(inner.err) )
        => proj.valid = pre.proj.valid
     /\ inner.state = "pending" => proj.valid = pre.proj.valid
     /\ inner.state = "resolved" => proj.valid = "true" /\ trace = ExistingStepOrder
     /\ ( pc = "idle" /\ inner.state = "rejected" )
        => result.state = "rejected" /\ result.err = inner.err

C7_Witness ==
  /\ Finished(ExistingCall)
  /\ result.state = "rejected"
  /\ result.err = ErrExpiredPw
  /\ pre.proj.valid = UNDEF
  /\ proj.valid = "false"

\* C8: _initExisting rejects with 'This does not seem to be a valid
\* MavensMate project directory.' and starts no step unless config/.settings
\* exists under the path if it is set, else under workspace/name if both are
\* set, else under the working directory; when it goes on, path, workspace
\* and name come from that same location.
C8_MarkerDecidesAcceptance ==
  ( Finished(ExistingCall) )
  => LET p0     == pre.proj
         loc    == IF IsString(p0.path) THEN p0.path
                   ELSE IF IsString(p0.workspace) /\ IsString(p0.name)
                   THEN Join(p0.workspace, p0.name)
                   ELSE CwdDir
         marker == MarkerExists(pre.fs.disk, loc)
     IN  /\ ~marker => /\ result.state = "rejected"
                       /\ result.err = ErrNotProject
                       /\ trace = << >>
         /\ marker => /\ trace # << >>
                      /\ proj.path = loc
                      /\ proj.workspace = Dirname(loc)
                      /\ proj.name = Basename(loc)

\* config/.session is as the call found it
SessionUntouched ==
  \A l \in Locs : disk[l].cfg[".session"] = pre.fs.disk[l].cfg[".session"]

\* C9: _initExisting starts its steps in the order package descriptor,
\* settings, cached session, connection, session persist, local store and
\* index, describe refresh, log subscription, each after the one before
\* succeeded; config/.session is rewritten only after the connection was
\* established, so a failed authentication leaves it as it was.
C9_StepsInOrder ==
  ( op = ExistingCall )
  => /\ Len(trace) <= Len(ExistingStepOrder)
     /\ trace = SubSeq(ExistingStepOrder, 1, Len(trace))
     /\ (\A i \in DOMAIN trace : trace[i] # "_writeSession") => SessionUntouched
     /\ ( inner.state = "rejected" /\ Len(trace) = 4 ) => SessionUntouched
     /\ ( pc \in {"ie_writeSession", "ie_index", "ie_describe", "ie_listen"} )
        => proj.sfdcClient = "ready"

C9_Witness ==
  /\ Finished(ExistingCall)
  /\ result.err = ErrInvalidLogin
  /\ Len(trace) = 4
  /\ trace[4] = "sfdcClient.initialize"
  /\ pre.fs.disk[proj.path].cfg[".session"] = "tok0"
  /\ disk[proj.path].cfg[".session"] = "tok0"

\* the keys the local store holds for a retrieve that returned members
StoreKeysFor(members) ==
  { k \in {"A.cls", "B.cls"} : \/ k = "A.cls" /\ "classes/A.cls" \in members
                               \/ k = "B.cls" /\ "classes/B.cls" \in members }

\* the source root and the local store after a refresh that succeeded
RefreshedFromRetrieval ==
  LET d == disk[proj.path]
      t == tmp[Len(tmp)]
  IN  /\ FilesOf(d.src) = retr.members \cup {Manifest}
      /\ \E v \in {"server"} \cup (IF co.deployed THEN {"deployed"} ELSE {}) :
           \A f \in FilesOf(d.src) : d.src[f] = v
      /\ d.store.present
      /\ { e.key : e \in d.store.entries } = StoreKeysFor(retr.members)
      /\ Cardinality(d.store.entries) = Cardinality(StoreKeysFor(retr.members))
      /\ \A e \in d.store.entries : e.mmState = "clean"
      /\ ~t.hasUnpackaged

\* C10 (as stated): after refreshFromServer succeeds the source root holds
\* exactly the files of the staging unpackaged output, the manifest
\* included, the local store holds exactly the entries of that retrieval's
\* file properties, and the staging directory is gone.
C10_StagingDirectoryGone ==
  ( FinishedNamed("refreshFromServer") /\ result.state = "resolved" )
  => /\ RefreshedFromRetrieval
     /\ ~tmp[Len(tmp)].exists

\* no compile of the same caller overlapped or followed the call in flight
NoCompileAlongside == co.pc = "none" \/ (co.pc = "done" /\ co.atEnd = "notbegun")

\* C10 (amended): after refreshFromServer succeeds (no other call of the
\* project running alongside it) the source root holds
\* exactly the files of the staging unpackaged output, the manifest
\* included, the local store holds exactly the entries of that retrieval's
\* file properties, and the unpackaged folder of the staging directory is
\* gone; the temporary staging directory itself is still there.
C10_StagedOutputMoved ==
  ( FinishedNamed("refreshFromServer") /\ result.state = "resolved" /\ NoCompileAlongside )
  => /\ RefreshedFromRetrieval
     /\ tmp[Len(tmp)].exists

C10_Witness ==
  /\ FinishedNamed("refreshFromServer")
  /\ result.state = "resolved"
  /\ pre.fs.disk[proj.path].src["classes/B.cls"] = ABSENT
  /\ disk[proj.path].src["classes/B.cls"] = "server"
  /\ disk[proj.path].src[Manifest] = "server"
  /\ \E e \in pre.fs.disk[proj.path].store.entries : e.key = "Old.cls"

\* the steps of refreshFromServer that run once the source root was emptied
AfterEmptying == {"rf_replace", "rf_remove", "rf_store", "rf_lightning"}

StoreNow == disk[proj.path].store
StoreBefore == pre.fs.disk[proj.path].store

\* the suffix of the type the registry resolves for a file property of
\* updateLocalStore, UNDEF when it resolves none
ResolvedSuffix(fp) ==
  IF fp.type # UNDEF THEN getTypeByXmlName(fp.type).suffix
  ELSE IF fp.attrType # UNDEF THEN getTypeByXmlName(fp.attrType).suffix
  ELSE getTypeByPath(SecondPart(fp.fileName)).suffix

\* the file properties of a list that updateLocalStore writes an entry for
Written(props) ==
  { i \in DOMAIN props : /\ ResolvedSuffix(props[i]) # UNDEF
                         /\ props[i].attrType # UNDEF \/ ~IsManifestName(props[i].fullName) }

\* the key of the entry of a file property
KeyOf(fp) ==
  (IF fp.attrType # UNDEF THEN fp.name ELSE fp.fullName) \o "." \o ResolvedSuffix(fp)

KeysOf(props) == { KeyOf(props[i]) : i \in Written(props) }

\* the store holds what it held, with the entries of props merged in
MergedInto(before, props) ==
  /\ StoreNow.present
  /\ \A e \in before.entries : e.key \notin KeysOf(props) => e \in StoreNow.entries
  /\ \A e \in StoreNow.entries :
       \/ e \in before.entries /\ e.key \notin KeysOf(props)
       \/ e.key \in KeysOf(props) /\ e.mmState = "clean"
  /\ \A k \in KeysOf(props) : Cardinality({ e \in StoreNow.entries : e.key = k }) = 1

\* sfdcClient.deploy answered
Deployed == args.deployResult.id # 0

\* C12 (as stated): whenever the deploy call succeeded, compile resolves
\* with the deploy result, also when updateLocalStore fails.
C12_ResolvesWhateverTheMerge ==
  ( FinishedNamed("compile") /\ Deployed )
  => /\ result.state = "resolved"
     /\ result.value = args.deployResult.id

\* C12 (amended): whenever the deploy call succeeded, compile resolves with
\* the raw deploy result if the response carries no retrieve result or
\* updateLocalStore succeeded; when updateLocalStore fails compile rejects
\* with the error of updateLocalStore and the local store is as it was.
C12_ResolvesUnlessMergeFails ==
  ( FinishedNamed("compile") /\ Deployed )
  => /\ ~args.deployResult.hasRetrieve
          => result.state = "resolved" /\ result.value = args.deployResult.id
     /\ args.deployResult.hasRetrieve
          => \/ /\ result.state = "resolved"
                /\ result.value = args.deployResult.id
                /\ MergedInto(StoreBefore, args.deployResult.fileProperties)
                /\ \A k \in KeysOf(args.deployResult.fileProperties) :
                     \E e \in StoreNow.entries : e.key = k
             \/ /\ result.state = "rejected"
                /\ result.err \in {ErrIO, ErrNoStoreFile, ErrUndefinedType}
                /\ StoreNow = StoreBefore

C12_Witness ==
  /\ FinishedNamed("compile")
  /\ args.deployResult.id = 2
  /\ result.state = "rejected"
  /\ result.err = ErrIO
  /\ StoreNow = StoreBefore

\* C13: compile changes the local store only by merging the file properties
\* of the retrieve result of the deploy response: with a retrieve result the
\* entries it does not name are kept, without one (or without an answer)
\* the store is unchanged; compile works on a copy in a temp directory, and
\* the source root and the rest of the project directory are unchanged.
C13_CompileOnlyMergesStore ==
  FinishedNamed("compile")
  => /\ disk[proj.path].src = pre.fs.disk[proj.path].src
     /\ disk = [pre.fs.disk EXCEPT ![proj.path].store = StoreNow]
     /\ ( Deployed /\ args.deployResult.hasRetrieve /\ result.state = "resolved" )
          => MergedInto(StoreBefore, args.deployResult.fileProperties)
     /\ ~( Deployed /\ args.deployResult.hasRetrieve /\ result.state = "resolved" )
          => StoreNow = StoreBefore
     /\ Len(tmp) > Len(pre.fs.tmp)
          => /\ Len(tmp) = Len(pre.fs.tmp) + 1
             /\ SubSeq(tmp, 1, Len(pre.fs.tmp)) = pre.fs.tmp
             /\ tmp[Len(tmp)].hasUnpackaged
                  => tmp[Len(tmp)].unpackaged = pre.fs.disk[proj.path].src

C13_Witness ==
  /\ FinishedNamed("compile")
  /\ result.state = "resolved"
  /\ args.deployResult.id = 2
  /\ \E e \in StoreNow.entries : e.key = "New.cls"
  /\ \E e \in StoreNow.entries : e.key = "Old.cls"
  /\ StoreNow # StoreBefore
  /\ tmp[Len(tmp)].zip
  /\ disk[proj.path].src["classes/A.cls"] = "local"

\* the file properties of a list that _writeLocalStore writes an entry for
Resolvable(props) ==
  { i \in DOMAIN props : /\ getTypeByPath(props[i].fileName) # NoType
                         /\ ~IsManifestName(props[i].fullName) }

\* C14: after _writeLocalStore(props) resolved, the local store read back
\* holds exactly one entry per input property with a resolvable type, keyed
\* fullName.suffix, each with mmState 'clean', and no entry that was there
\* before survives.
C14_StoreReplacedWholesale ==
  ( FinishedNamed("_writeLocalStore") /\ result.state = "resolved" )
  => /\ StoreNow.present
     /\ { e.key : e \in StoreNow.entries }
          = { args.props[i].fullName \o "." \o getTypeByPath(args.props[i].fileName).suffix :
                i \in Resolvable(args.props) }
     /\ Cardinality(StoreNow.entries) = Cardinality(Resolvable(args.props))
     /\ \A e \in StoreNow.entries :
          /\ e.mmState = "clean"
          /\ \E i \in Resolvable(args.props) :
               e.fullName = args.props[i].fullName /\ e.fileName = args.props[i].fileName

C14_Witness ==
  /\ FinishedNamed("_writeLocalStore")
  /\ result.state = "resolved"
  /\ args.props = << RetrievedX, RetrievedNew >>
  /\ \E e \in StoreBefore.entries : e.key = "Old.cls"
  /\ { e.key : e \in StoreNow.entries } = {"New.cls"}

\* C15: updateLocalStore(props) keeps every entry of the store whose key
\* props does not produce and overwrites only the entries with a key props
\* produces; every entry it writes has mmState 'clean'.  A call that
\* rejects leaves the store as it was.
C15_UpdateKeepsOtherEntries ==
  FinishedNamed("updateLocalStore")
  => /\ result.state = "resolved" => MergedInto(StoreBefore, args.props)
     /\ result.state = "rejected" => StoreNow = StoreBefore

C15_Witness ==
  /\ FinishedNamed("updateLocalStore")
  /\ result.state = "resolved"
  /\ args.props = << RetrievedA, RetrievedNew >>
  /\ { e.key : e \in StoreBefore.entries } = {"A.cls", "Old.cls"}
  /\ { e.key : e \in StoreNow.entries } = {"A.cls", "Old.cls", "New.cls"}

\* an entry of the list has a type the registry does not resolve
HasUnresolved(props) ==
  \E i \in DOMAIN props : ResolvedSuffix(props[i]) = UNDEF /\ ~IsManifestName(props[i].fullName)

\* C16: in updateLocalStore and in _writeLocalStore an input entry whose
\* type cannot be resolved is skipped, the remaining entries are still
\* written and, unless the file system fails, the operation resolves; a
\* manifest entry is always skipped.
C16_UnresolvedEntrySkipped ==
  /\ ( /\ FinishedNamed("updateLocalStore")
       /\ args.input = "value"
       /\ result.err \notin {ErrIO, ErrNoStoreFile} )
     => /\ result.state = "resolved"
        /\ \A i \in Written(args.props) : \E e \in StoreNow.entries : e.key = KeyOf(args.props[i])
        /\ \A e \in StoreNow.entries : e.fullName # "unpackaged/package.xml"
  /\ ( /\ FinishedNamed("_writeLocalStore")
       /\ args.input = "value"
       /\ result.err # ErrStoreWrite )
     => /\ result.state = "resolved"
        /\ \A i \in Resolvable(args.props) :
             \E e \in StoreNow.entries : e.fullName = args.props[i].fullName
        /\ \A e \in StoreNow.entries : e.fullName # "unpackaged/package.xml"

\* the staged output replaceLocalFiles was called with
StagedBefore == pre.fs.tmp[1].unpackaged

\* C17: after replaceLocalFiles(staging, replaceManifest) resolved, every
\* staged file other than the manifest is at the same relative path under
\* the source root with the staged content, the manifest of the source root
\* is the staged one if replaceManifest is true and is as it was before the
\* call otherwise, and the staging directory no longer exists.
C17_StagedFilesReplaceLocalOnes ==
  ( FinishedNamed("replaceLocalFiles") /\ result.state = "resolved" )
  => /\ \A f \in SrcNames \ {Manifest} :
          IF StagedBefore[f] # ABSENT
          THEN disk[proj.path].src[f] = StagedBefore[f]
          ELSE disk[proj.path].src[f] = pre.fs.disk[proj.path].src[f]
     /\ disk[proj.path].src[Manifest] =
          IF args.replacePackageXml /\ StagedBefore[Manifest] # ABSENT
          THEN StagedBefore[Manifest]
          ELSE pre.fs.disk[proj.path].src[Manifest]
     /\ ~tmp[1].hasUnpackaged

C17_Witness ==
  /\ FinishedNamed("replaceLocalFiles")
  /\ result.state = "resolved"
  /\ ~args.replacePackageXml
  /\ StagedBefore[Manifest] = "server"
  /\ disk[proj.path].src[Manifest] = "local"
  /\ disk[proj.path].src["classes/B.cls"] = "server"
  /\ pre.fs.disk[proj.path].src["classes/B.cls"] = ABSENT
  /\ pre.fs.tmp[1].hasUnpackaged

\* getOrgMetadataIndexWithSelections resolved with the index it read
IndexReturned ==
  /\ FinishedNamed("getOrgMetadataIndexWithSelections")
  /\ result.state = "resolved"
  /\ args.index.present

\* the type node of T and all of its children are selected
TypeAndChildrenSelected(T) ==
  \A n \in args.index.nodes : n = << T >>
    => /\ args.index.select[n]
       /\ \A c \in Children(n) \cap args.index.nodes : args.index.select[c]

\* the types a subscription holds a wildcard entry for
Wildcards(subscription) ==
  { subscription[i].type : i \in { j \in DOMAIN subscription : subscription[j].wildcard } }

\* C19 (as stated): for every subscription with a wildcard entry for type
\* T, after getOrgMetadataIndexWithSelections resolves, every index node
\* with xmlName T and all of its children are selected.
C19_WildcardSelectsTypeAndChildren ==
  IndexReturned
  => \A T \in Wildcards(args.subscription) : TypeAndChildrenSelected(T)

\* C19 (amended): for every subscription with a wildcard entry for type T,
\* after getOrgMetadataIndexWithSelections, called without an explicit list
\* of ids, resolves, every index node with xmlName T and all of its
\* children are selected.
C19_WildcardSelectsUnlessIdsGiven ==
  ( IndexReturned /\ ~args.hasIds )
  => \A T \in Wildcards(args.subscription) : TypeAndChildrenSelected(T)

C19_Witness ==
  /\ IndexReturned
  /\ ~args.hasIds
  /\ args.subscription = << All("CustomObject") >>
  /\ args.index.select[<< "CustomObject" >>]
  /\ args.index.select[<< "CustomObject", "Acct" >>]
  /\ ~args.index.select[<< "ApexClass" >>]

\* C20: in the index getOrgMetadataIndexWithSelections returns, every node
\* above a selected node, up to the type node, is selected too; this holds
\* for the nodes the two-level propagation selects under a member of a type
\* with nested children.
C20_NoOrphanedSelection ==
  IndexReturned
  => \A n \in Nodes : args.index.select[n]
       => \A a \in Ancestors(n) : args.index.select[a]

C20_Witness ==
  /\ IndexReturned
  /\ args.subscription = << Listed("CustomObject", << Member(<< "Acct" >>, ".") >>) >>
  /\ ~args.hasIds
  /\ args.index.select[<< "CustomObject", "Acct", "fields", "F1" >>]
  /\ args.index.select[<< "CustomObject", "Acct", "fields" >>]
  /\ args.index.select[<< "CustomObject", "Acct" >>]
  /\ args.index.select[<< "CustomObject" >>]
  /\ ~args.index.select[<< "Document" >>]

\* the id the addressing rule of a type gives a member of its list
AddressOf(type, member) ==
  CASE type = "Document"    -> << "Document", member.parts[1], member.parts[2] >>
    [] type = "CustomField" -> << "CustomObject", member.parts[1], "fields", member.parts[2] >>
    [] OTHER                -> << type, member.parts[1] >>

\* the entries of a subscription that list their members
ListedEntries(subscription) ==
  { subscription[i] : i \in { j \in DOMAIN subscription : ~subscription[j].wildcard } }

\* one id for every listed member of the entries E
AddressesOf(E) ==
  UNION { { AddressOf(e.type, e.members[j]) : j \in DOMAIN e.members } : e \in E }

\* the types whose nodes hold nested children
NestedTypes == { "CustomObject" }

\* the nodes one and two levels below a node
TwoLevelsBelow(n) == Children(n) \cup UNION { Children(c) : c \in Children(n) }

\* under every listed member of a type with nested children, the children
\* and grandchildren the index holds are selected
NestedMembersSelected ==
  \A e \in ListedEntries(args.subscription) :
    e.type \in NestedTypes
    => \A j \in DOMAIN e.members :
         \A n \in TwoLevelsBelow(AddressOf(e.type, e.members[j])) \cap args.index.nodes :
           args.index.select[n]

\* C21 (as stated): when getOrgMetadataIndexWithSelections resolves for a
\* descriptor, the selection ids it built are the type of every wildcard
\* entry and exactly one id per listed member, by the addressing rule of the
\* member's type; under a member of a type with nested children the
\* children and grandchildren are selected.
C21_OneIdPerMember ==
  ( IndexReturned /\ ~args.hasIds )
  => /\ args.index.ids = { << T >> : T \in Wildcards(args.subscription) }
                          \cup AddressesOf(ListedEntries(args.subscription))
     /\ NestedMembersSelected

\* the listed entries whose members get an id: all but those of a type with
\* nested children whose type node the index does not hold
Addressed(subscription, nodes) ==
  { e \in ListedEntries(subscription) : e.type \in NestedTypes => << e.type >> \in nodes }

\* C21 (amended): as stated, except that a member of a type with nested
\* children gets its id only when the index holds the node of the type; no
\* id is built for it otherwise.
C21_OneIdPerMemberOfIndexedType ==
  ( IndexReturned /\ ~args.hasIds )
  => /\ args.index.ids = { << T >> : T \in Wildcards(args.subscription) }
                          \cup AddressesOf(Addressed(args.subscription, args.index.nodes))
     /\ NestedMembersSelected

\* {ApexClass: ['Foo']} on an index whose ApexClass node has no children
C21_Witness ==
  /\ IndexReturned
  /\ ~args.hasIds
  /\ args.subscription = << Listed("ApexClass", << Member(<< "Foo" >>, ".") >>) >>
  /\ Children(<< "ApexClass" >>) \cap args.index.nodes = {}
  /\ args.index.ids = { << "ApexClass", "Foo" >> }
  /\ \A n \in Nodes : ~args.index.select[n]

\* the types of a subscription the type registry does not hold
Unrecognized(subscription) ==
  { subscription[i].type :
      i \in { j \in DOMAIN subscription : getTypeByXmlName(subscription[j].type) = NoXmlType } }

\* C22: when getOrgMetadataIndexWithSelections has read the index and
\* consulted a package descriptor that holds a type the registry does not
\* recognise, it has rejected with 'Unrecognized package.xml metadata type:
\* <type>' for such a type; it has not resolved.
C22_UnrecognizedTypeRejects ==
  ( /\ FinishedNamed("getOrgMetadataIndexWithSelections")
    /\ args.index.present
    /\ ~args.hasIds
    /\ Unrecognized(args.subscription) # {} )
  => /\ result.state = "rejected"
     /\ \E T \in Unrecognized(args.subscription) :
          result.err = << "Unrecognized package.xml metadata type: ", T >>

\* the loop went on after the unrecognized type and marked the index, and
\* the call rejected all the same
C22_Witness ==
  /\ FinishedNamed("getOrgMetadataIndexWithSelections")
  /\ ~args.hasIds
  /\ args.subscription = << All("Widget"), All("ApexClass") >>
  /\ args.index.select[<< "ApexClass", "Foo" >>]
  /\ result.state = "rejected"
  /\ result.err = ErrUnrecognized

InitConfigStep ==
  /\ tasks # TasksOff \/ cfg.all = "resolved"
  /\ tasks' # tasks \/ cfg' # cfg
  /\ pc' = pc

\* the step leaves every file of every project directory in place
NoFileRemoved ==
  \A l \in Locs :
    /\ \A f \in CfgNames : disk[l].cfg[f] # ABSENT => disk'[l].cfg[f] # ABSENT
    /\ disk[l].editor # ABSENT => disk'[l].editor # ABSENT
    /\ disk[l].exists => disk'[l].exists

\* C28: no step of _initConfig removes a file: when one of its six tasks
\* fails, _initConfig rejects with the error of the task in that very step
\* and leaves the disk as the other tasks have written it; the
\* password-store step hands the password to the keychain only after all
\* six tasks were fulfilled.
C28_InitConfigNotTransactional ==
  [][ InitConfigStep
      => /\ NoFileRemoved
         /\ ( \E t \in TaskNames : tasks'[t] = "err" ) => cfg'.promise.state = "rejected"
         /\ ( cfg.all = "pending" /\ cfg'.promise.state = "rejected" )
            => /\ cfg'.all = "rejected"
               /\ cfg'.promise.err \in {ErrIO, ErrNet}
               /\ disk' = disk
         /\ ( cfg.promise.state = "pending" /\ cfg'.promise.state # "pending"
              /\ cfg.all = "resolved" )
            => tasks = TasksOff
         /\ cfg.all # "resolved" => env' = env ]_vars

\* _initConfig has rejected for its describe, and the settings and the
\* session the writers wrote are on disk; the password was not stored
C28_Witness ==
  /\ cfg.promise = Rejected(ErrNet)
  /\ cfg.all = "rejected"
  /\ tasks["_refreshDescribeFromServer"] = "err"
  /\ disk[proj.path].cfg[".settings"] = Stringify(Settings0)
  /\ env.keychain = UNDEF
  /\ disk[proj.path].cfg[".session"] # ABSENT
  /\ pre.fs.disk[proj.path].cfg[".settings"] = ABSENT

\* a is the beginning of b
IsPrefix(a, b) == Len(a) <= Len(b) /\ a = SubSeq(b, 1, Len(a))

\* the steps of edit, in the order the claim gives them
EditSteps ==
  << "retrieveUnpackaged", "_writeLocalStore", "emptyDirectoryRecursiveSync",
     "replaceLocalFiles", "newPackage.init", "removeEmptyDirectoriesRecursiveSync" >>

\* C26: the steps edit has started are a beginning of: retrieve into the
\* staging directory, replace the local store, empty the source root,
\* replace the files (manifest included), load the new descriptor, prune.
\* The local store is replaced only by the entries of the retrieval, the
\* source root is touched only after that, packageXml is swapped only by a
\* call whose descriptor loaded, and a call whose retrieve failed leaves
\* local store, source root and packageXml as they were.
C26_EditOrder ==
  op.name = "edit"
  => LET d == disk[proj.path]
         was == pre.fs.disk[proj.path]
         fresh == [present |-> TRUE, entries |-> LocalStoreFrom(retr.fileProperties)]
     IN  /\ IsPrefix(trace, EditSteps)
         /\ d.store # was.store => Len(trace) >= 2 /\ d.store = fresh
         /\ d.src # was.src => Len(trace) >= 3 /\ d.store = fresh
         /\ Len(trace) >= 3 => d.store = fresh
         /\ proj.packageXml # pre.proj.packageXml
            => pc = "idle" /\ result.state = "resolved" /\ trace = EditSteps
         /\ ( pc = "idle" /\ result.state = "rejected" /\ Len(trace) <= 1 )
            => /\ disk = pre.fs.disk
               /\ proj.packageXml = pre.proj.packageXml
         /\ ( pc = "idle" /\ result.state = "resolved" )
            => /\ trace = EditSteps
               /\ FilesOf(d.src) = retr.members \cup {Manifest}
               /\ \A f \in FilesOf(d.src) : d.src[f] = "server"
               /\ proj.packageXml = "package2"

C26_Witness ==
  /\ FinishedNamed("edit")
  /\ result.state = "resolved"
  /\ trace = EditSteps
  /\ proj.packageXml = "package2"
  /\ pre.proj.packageXml = "package1"
  /\ pre.fs.disk[proj.path].src[Manifest] = "local"
  /\ disk[proj.path].src[Manifest] = "server"
  /\ pre.fs.disk[proj.path].src["classes/B.cls"] = ABSENT
  /\ disk[proj.path].src["classes/B.cls"] = "server"
  /\ \E e \in pre.fs.disk[proj.path].store.entries : e.key = "Old.cls"
  /\ ~\E e \in disk[proj.path].store.entries : e.key = "Old.cls"

\* the steps of clean, in order
CleanSteps == << "refreshFromServer", "_refreshDescribeFromServer", "indexMetadata" >>

\* C27: the steps clean has started are a beginning of: refreshFromServer,
\* describe refresh, metadata index rebuild.  The describe is refreshed only
\* after the refresh from the server resolved and the index rebuilt only
\* after the describe was refreshed; a clean that rejected has started no
\* step after the failing one, and a clean that resolved has run all three.
C27_CleanInSequence ==
  op.name = "clean"
  => LET d == disk[proj.path]
         was == pre.fs.disk[proj.path]
     IN  /\ IsPrefix(trace, CleanSteps)
         /\ Len(trace) >= 2
            => /\ d.store = [present |-> TRUE,
                             entries |-> LocalStoreFrom(retr.fileProperties)]
               /\ FilesOf(d.src) = retr.members \cup {Manifest}
         /\ d.cfg[".describe"] # was.cfg[".describe"]
            => /\ trace = CleanSteps
               /\ d.cfg[".describe"] = "describe2"
         /\ d.cfg[".org_metadata"] # was.cfg[".org_metadata"]
            => /\ trace = CleanSteps
               /\ d.cfg[".describe"] = "describe2"
               /\ d.cfg[".org_metadata"] = "index2"
               /\ pc = "idle" /\ result.state = "resolved"
         /\ ( pc = "idle" /\ result.state = "rejected" )
            => /\ d.cfg[".org_metadata"] = was.cfg[".org_metadata"]
               /\ Len(trace) <= 2 => d.cfg[".describe"] = was.cfg[".describe"]
         /\ ( pc = "idle" /\ result.state = "resolved" )
            => /\ trace = CleanSteps
               /\ d.cfg[".describe"] = "describe2"
               /\ d.cfg[".org_metadata"] = "index2"

\* the describe refresh of a clean failed after the refresh from the server:
\* clean rejected with its error and the index was not rebuilt
C27_Witness ==
  /\ FinishedNamed("clean")
  /\ result.state = "rejected"
  /\ result.err = ErrNet
  /\ trace = << "refreshFromServer", "_refreshDescribeFromServer" >>
  /\ disk[proj.path].src["classes/B.cls"] = "server"
  /\ disk[proj.path].cfg[".describe"] = pre.fs.disk[proj.path].cfg[".describe"]
  /\ disk[proj.path].cfg[".org_metadata"] = "index0"

\* the reference store after a wholesale replacement by the entries of a
\* retrieval: one clean entry per file property with a resolvable type,
\* and nothing else
ReplacedBy(props) ==
  /\ StoreNow.present
  /\ { e.key : e \in StoreNow.entries }
       = { props[i].fullName \o "." \o getTypeByPath(props[i].fileName).suffix :
             i \in Resolvable(props) }
  /\ Cardinality(StoreNow.entries) = Cardinality(Resolvable(props))
  /\ \A e \in StoreNow.entries :
       /\ e.mmState = "clean"
       /\ \E i \in Resolvable(props) :
            e.fullName = props[i].fullName /\ e.fileName = props[i].fileName

\* the sync operations that replace the store wholesale
Replacing ==
  \/ result.op.name \in {"retrieveAndWriteToDisk", "refreshFromServer", "edit"}
  \/ result.op = FromDirCall

\* C30: one step of the reference fold.  After a sync operation that ran
\* on its own has resolved, the local store is the store the operation
\* found, replaced wholesale by the entries of the operation's retrieval
\* when it is retrieveAndWriteToDisk, the initialization from an existing
\* directory, refreshFromServer or edit, and with the entries of the deploy
\* result merged in (the others kept) when it is compile; no operation
\* uses the other mode.
C30_StoreFollowsReferenceFold ==
  ( Quiescent /\ result.state = "resolved" /\ NoCompileAlongside )
  => /\ Replacing => ReplacedBy(retr.fileProperties)
     /\ result.op.name = "compile"
          => IF Deployed /\ args.deployResult.hasRetrieve
             THEN /\ MergedInto(StoreBefore, args.deployResult.fileProperties)
                  /\ \A k \in KeysOf(args.deployResult.fileProperties) :
                       \E e \in StoreNow.entries : e.key = k
             ELSE StoreNow = StoreBefore

\* an edit replaced the store, dropping the entry of Old.cls, and the
\* compile after it merged New.cls into what the edit left
C30_Witness ==
  /\ FinishedNamed("compile")
  /\ result.state = "resolved"
  /\ pre.result.op.name = "edit"
  /\ args.deployResult.id = 2
  /\ ~\E e \in StoreBefore.entries : e.key = "Old.cls"
  /\ \E e \in StoreBefore.entries : e.key = "B.cls"
  /\ StoreNow.entries \ StoreBefore.entries # {}
  /\ \A e \in StoreNow.entries \ StoreBefore.entries : e.key = "New.cls"
  /\ StoreBefore.entries \subseteq StoreNow.entries

\* C25: after the initialization of an existing project has failed with an
\* authentication error, the access token that was cached when the call
\* started is held neither in config/.session nor in cachedSession.
C25_SessionInvalidatedOnAuthFailure ==
  ( /\ Finished(ExistingCall)
    /\ result.state = "rejected"
    /\ IsAuthError(result.err)
    /\ pre.fs.disk[proj.path].cfg[".session"] # ABSENT )
  => /\ disk[proj.path].cfg[".session"] # pre.fs.disk[proj.path].cfg[".session"]
     /\ proj.cachedSession # pre.fs.disk[proj.path].cfg[".session"]

\* C24: no exception leaves the handler of 'sfdcclient-cache-refresh': a
\* failure in it is logged and nothing else.
C24_HandlerFailureOnlyLogged == handler.uncaught = NoErr

\* the keys of the local store on disk
StoreKeysNow == { e.key : e \in StoreNow.entries }

\* every file of the source root has the content of version v of the server
SourceRootIs(v) == \A f \in FilesOf(disk[proj.path].src) : disk[proj.path].src[f] = v

\* a refreshFromServer and a compile of the same project have both resolved
BothResolved ==
  /\ FinishedNamed("refreshFromServer")
  /\ result.state = "resolved"
  /\ co.pc = "done"
  /\ co.state = "resolved"

\* the two calls were in flight at the same time
Overlapped == co.atStart = "inflight" \/ (co.atStart = "notbegun" /\ co.atEnd # "notbegun")

\* the keys the deploy result of the compile brings to the store
DeployedKeys ==
  IF co.deployResult.hasRetrieve THEN KeysOf(co.deployResult.fileProperties) ELSE {}

\* C23: the project does no locking, a compile and a refreshFromServer in
\* flight together interleave at their callbacks, and serialized calls end
\* in a state their order decides.  When the compile settled before the
\* refresh began, the source root holds what the compile deployed and the
\* local store holds the entries of the refresh's retrieval and no other;
\* when the compile began after the refresh settled, the source root holds
\* what the server held before the deploy and the local store holds the
\* entries of the retrieval together with those of the deploy result.
C23_SerialOrderDecides ==
  BothResolved
  => /\ co.atEnd = "notbegun"
          => /\ SourceRootIs("deployed")
             /\ StoreKeysNow = StoreKeysFor(retr.members)
     /\ co.atStart = "settled"
          => /\ SourceRootIs("server")
             /\ StoreKeysNow = StoreKeysFor(retr.members) \cup DeployedKeys

\* the two calls overlapped and left a state neither serial order gives:
\* the source root holds what the compile deployed, as after compile then
\* refresh, and the store holds an entry the refresh had removed beside
\* the entry of the deploy result
C23_Witness ==
  /\ BothResolved
  /\ Overlapped
  /\ SourceRootIs("deployed")
  /\ "Old.cls" \in StoreKeysNow
  /\ "Old.cls" \notin StoreKeysFor(retr.members) \cup DeployedKeys
  /\ DeployedKeys # {}
  /\ DeployedKeys \subseteq StoreKeysNow

\* the failures indexLightning is to tolerate
Tolerated == { ErrNotSupported, ErrNoResource }

\* the Lightning index on disk is the one the call found
LightningIndexUntouched ==
  disk[proj.path].cfg[".lightning"] = pre.fs.disk[proj.path].cfg[".lightning"]

\* C33: indexLightning resolves without writing the Lightning index when
\* the collaborator fails with 'type not supported' or 'requested resource
\* does not exist', and rejects on every other failure.  No call and no
\* config bootstrap rejects with a tolerated failure, the index file is not
\* written when indexLightning failed, a refreshFromServer whose indexing
\* met a tolerated failure resolves; after any other failure the
\* Promise.all of the bootstrap does not resolve and refreshFromServer
\* rejects with that failure.
C33_LightningToleratesMissingFeature ==
  /\ result.err \notin Tolerated
  /\ cfg.promise.err \notin Tolerated
  /\ args.lightning \in LightningErrs => LightningIndexUntouched
  /\ args.lightning \in Tolerated
       => ( op.name = "refreshFromServer"
            => pc = "idle" /\ result.op = op /\ result.state = "resolved" )
  /\ args.lightning \in LightningErrs \ Tolerated
       => /\ cfg.all # "resolved"
          /\ op.name \in {"refreshFromServer", "clean"}
               => /\ pc = "idle"
                  /\ result.op = op
                  /\ result.state = "rejected"
                  /\ result.err = args.lightning

\* a config bootstrap went through although the org has no Lightning
C33_Witness ==
  /\ args.lightning \in Tolerated
  /\ cfg.all = "resolved"
  /\ cfg.promise.state = "resolved"
  /\ disk[proj.path].cfg[".lightning"] = ABSENT
  /\ disk[proj.path].cfg[".settings"] # ABSENT

\* C34: while refreshFromServer has no answer to its retrieve, and when it
\* has failed without one (the package descriptor init or the retrieve
\* failed), the source root and the local store are as the call found
\* them; no other call runs alongside.
C34_NothingTouchedBeforeRetrieval ==
  ( op.name = "refreshFromServer" /\ retr = NoAnswer /\ NoCompileAlongside )
  => /\ disk[proj.path].src = pre.fs.disk[proj.path].src
     /\ disk[proj.path].hasSrc = pre.fs.disk[proj.path].hasSrc
     /\ StoreNow = StoreBefore

C34_Witness ==
  /\ FinishedNamed("refreshFromServer")
  /\ result.op = op
  /\ result.state = "rejected"
  /\ result.err \in CollabErrs
  /\ retr = NoAnswer
  /\ Len(tmp) > 0
  /\ NoCompileAlongside
  /\ disk[proj.path].src["classes/A.cls"] = "local"
  /\ \E e \in StoreNow.entries : e.key = "Old.cls"

\* the second instance has made the project directory and has not failed
TwinHoldsDirectory ==
  \/ co.pc \in {"ot_retrieve", "ot_config"}
  \/ co.pc = "done" /\ co.state = "resolved"

\* the first instance has made the project directory and has not failed
CallHoldsDirectory ==
  /\ op.name = "retrieveAndWriteToDisk"
  /\ \/ pc \in {"rw_retrieve", "rw_config", "rw_store"}
     \/ pc = "idle" /\ result.op = op /\ result.state = "resolved"

\* C35 (as stated): the rollback of retrieveAndWriteToDisk removes only a
\* directory its own invocation made.  When two invocations for the same
\* workspace and name overlap, the directory one of them has made and is
\* populating, or has completed, is still there.
C35_RollbackSparesTheOthersDirectory ==
  env.kind = "twin"
  => /\ TwinHoldsDirectory => ExistsSync(disk, TwinPath)
     /\ CallHoldsDirectory => ExistsSync(disk, proj.path)

\* C37 (as stated): when a cache-refresh notification has been handled
\* without error (the session was written and the session file was read
\* back), the cachedSession of the project is the session the handler
\* wrote to config/.session.
C37_CachedSessionIsTheWrittenOne ==
  ( /\ handler.runs > 0
    /\ handler.write = "off"
    /\ handler.read = "read"
    /\ handler.uncaught = NoErr )
  => proj.cachedSession = handler.token

\* C38 (as stated): however often the project was initialized, the network
\* client of the project has at most one listener for 'sfdcclient-new-log',
\* so that a notification starts at most one download and one 'new-log'
\* event.
C38_OneNewLogListener == proj.newLogListeners <= 1

(* ---------------------------------------------------------------------- *)
(* The password of a project: where it is read from                        *)
(* ---------------------------------------------------------------------- *)
\* the settings config/.settings holds, and the settings the project holds
FileSettings == ParseSettings(disk[proj.path].cfg[".settings"])
HeldSettings == ParseSettings(proj.settings)

\* the chain of _initExisting is past _getSettings
SettingsLoaded ==
  pc \in {"ie_session", "ie_connect", "ie_writeSession", "ie_index", "ie_describe",
          "ie_listen"}

\* _initExisting was rejected by _getPassword
PasswordRefused ==
  /\ pc \in {"initialize", "uc_initExisting"}
  /\ inner.state = "rejected"
  /\ inner.err \in {ErrNoPassword, ErrKeychain}

\* C31: when the settings are loaded a password inlined in config/.settings
\* is the one the project holds, whatever the keychain holds; with none
\* inlined the project holds the password of the keychain, which is then
\* enabled; loading is refused only with no inlined password, for want of
\* a password when the keychain is disabled and for a failed lookup when it
\* is enabled; and an initialization of a project with no inlined password
\* and the keychain disabled ends rejected.
C31_InlinedPasswordFirst ==
  /\ SettingsLoaded =>
       /\ FileSettings.password # UNDEF => HeldSettings.password = FileSettings.password
       /\ FileSettings.password = UNDEF =>
            /\ env.useSystemKeychain
            /\ HeldSettings.password = env.keychain
  /\ PasswordRefused =>
       /\ FileSettings.password = UNDEF
       /\ inner.err = ErrNoPassword <=> ~env.useSystemKeychain
       /\ pc = "initialize" => ~proj.initialized
  /\ ( /\ FinishedNamed("initialize")
       /\ env.kind = "keyring"
       /\ FileSettings.password = UNDEF
       /\ ~env.useSystemKeychain ) => result.state = "rejected"

\* the settings were loaded from a file with an inlined password while the
\* enabled keychain holds another one
C31_Witness ==
  /\ SettingsLoaded
  /\ FileSettings.password = "pw0"
  /\ env.useSystemKeychain
  /\ env.keychain = "pw1"
  /\ HeldSettings.password = "pw0"

\* the settings were loaded with the password of the keychain
C31_WitnessKeychain ==
  /\ SettingsLoaded
  /\ FileSettings.password = UNDEF
  /\ HeldSettings.password = "pw1"

\* the load was refused because the lookup failed
C31_WitnessRefused ==
  /\ PasswordRefused
  /\ inner.err = ErrKeychain
  /\ env.keychain # UNDEF

(* ---------------------------------------------------------------------- *)
(* The password of a project: where it is kept                             *)
(* ---------------------------------------------------------------------- *)
\* config/.settings is on disk
SettingsOnDisk == disk[proj.path].cfg[".settings"] # ABSENT

\* the config bootstrap of a new project has succeeded
BootstrapSucceeded == env.kind = "bootstrap" /\ cfg.promise.state = "resolved"

\* the _storePassword of the updateCreds under way, or just resolved, has
\* succeeded
PasswordStored ==
  /\ op.name = "updateCreds"
  /\ \/ pc \notin {"idle", "uc_connect"}
     \/ pc = "idle" /\ result.op.name = "updateCreds" /\ result.state = "resolved"

\* C32: after a successful config bootstrap, and after a successful
\* password store, config/.settings as persisted holds no password when
\* the system keychain is in use, which then holds the secret, also when
\* the file held a password before; it holds the password when the
\* keychain is not in use.
C32_PasswordInOnePlace ==
  /\ BootstrapSucceeded /\ SettingsOnDisk =>
       IF env.useSystemKeychain
       THEN FileSettings.password = UNDEF /\ env.keychain = proj.password
       ELSE FileSettings.password = proj.password /\ env.keychain = UNDEF
  /\ PasswordStored /\ SettingsOnDisk =>
       IF env.useSystemKeychain
       THEN FileSettings.password = UNDEF /\ env.keychain = NewCreds.password
       ELSE FileSettings.password = NewCreds.password /\ env.keychain = pre.env.keychain

\* a password store with the keychain in use has cleared the password an
\* earlier version of config/.settings held
C32_Witness ==
  /\ PasswordStored
  /\ env.useSystemKeychain
  /\ ParseSettings(pre.fs.disk[proj.path].cfg[".settings"]).password = "pw0"
  /\ FileSettings.password = UNDEF
  /\ env.keychain = "pw1"

\* a bootstrap with the keychain in use has left no password in the file
C32_WitnessBootstrap ==
  /\ BootstrapSucceeded
  /\ env.useSystemKeychain
  /\ SettingsOnDisk
  /\ FileSettings.password = UNDEF
  /\ env.keychain = "pw0"

\* a bootstrap without the keychain has put the password in the file
C32_WitnessInline ==
  /\ BootstrapSucceeded
  /\ ~env.useSystemKeychain
  /\ SettingsOnDisk
  /\ FileSettings.password = "pw0"

(* ---------------------------------------------------------------------- *)
(* updateCreds and updateSetting: what a rejection leaves behind           *)
(* ---------------------------------------------------------------------- *)
\* the settings config/.settings held when the call began
FileSettingsBefore == ParseSettings(pre.fs.disk[proj.path].cfg[".settings"])

\* C36: when updateCreds has rejected, the project holds the client it had
\* before the call, and the persisted username, environment, login URL and
\* stored password (in config/.settings and in the keychain) are the ones
\* from before the call.
C36_UpdateCredsAllOrNothing ==
  ( /\ FinishedNamed("updateCreds")
    /\ result.state = "rejected"
    /\ SettingsOnDisk ) =>
      /\ proj.clientNo = pre.proj.clientNo
      /\ FileSettings = FileSettingsBefore
      /\ env.keychain = pre.env.keychain

\* C39: a finished updateSetting(key, value) has either resolved, and then
\* config/.settings holds what it held before with that one key changed,
\* the project's settings are the written content and nothing else on disk
\* has changed; or it has rejected, and then the disk and the project are
\* as they were before the call.
C39_UpdateSettingAllOrNothing ==
  FinishedNamed("updateSetting") =>
    IF result.state = "resolved"
    THEN /\ FileSettings = [FileSettingsBefore EXCEPT ![args.key] = args.value]
         /\ proj.settings = disk[proj.path].cfg[".settings"]
         /\ disk = [pre.fs.disk EXCEPT ![proj.path].cfg[".settings"] = proj.settings]
         /\ \A k \in SettingsKeys \ {args.key} : FileSettings[k] = FileSettingsBefore[k]
    ELSE /\ disk = pre.fs.disk
         /\ proj = pre.proj

\* an updateSetting has resolved with the username changed and the rest of
\* the settings kept
C39_Witness ==
  /\ FinishedNamed("updateSetting")
  /\ result.state = "resolved"
  /\ args.key = "username"
  /\ FileSettingsBefore.username = "u0"
  /\ FileSettings.username = "u1"
  /\ FileSettings.password = "pw0"

\* an updateSetting has rejected because the file could not be written
C39_WitnessRejected ==
  /\ FinishedNamed("updateSetting")
  /\ result.state = "rejected"
  /\ result.err = ErrIO

\* an updateSetting has rejected because the file could not be read
C39_WitnessUnread ==
  /\ FinishedNamed("updateSetting")
  /\ result.err = ErrSettingsRead

\* C18: every operation eventually settles, by resolving or by rejecting
\* with the error that occurred in it; none stays pending forever.
C18_EveryOperationSettles == (pc # "idle") ~> (pc = "idle")

====
